---- MODULE Spec2Model ----
(***************************************************************************)
(* A model of s7.hpp, the C++ binding layer over the s7 Scheme runtime:    *)
(* the value converter (is / to / from), the per-interpreter type          *)
(* registry (TypeTag), the adapter table (LambdaTable), the call adapter   *)
(* (call_fn / call_fn_varargs) and the overload resolver (_make_overload). *)
(***************************************************************************)
EXTENDS Integers, Sequences, FiniteSets, TLC

(***************************************************************************)
(* Bounds of the model.                                                    *)
(***************************************************************************)
\* s7_int is 64 bits wide; the model scales every integer width down and
\* keeps their order: short < int < long = s7_int.
ShortBits == 2
IntBits == ShortBits + 1
S7IntBits == IntBits + 1
LongBits == S7IntBits
\* unsigned char values 0 .. MaxChar
MaxChar == 2
\* strings of at most MaxStrLen bytes, over the bytes 0 and 1
MaxStrLen == 2
Bytes == {0, 1}

RECURSIVE Pow2(_)
Pow2(n) == IF n = 0 THEN 1 ELSE 2 * Pow2(n - 1)

SignedRange(w) == (0 - Pow2(w - 1)) .. (Pow2(w - 1) - 1)

ClampTo(w, x) ==
    IF x < 0 - Pow2(w - 1) THEN 0 - Pow2(w - 1)
    ELSE IF x > Pow2(w - 1) - 1 THEN Pow2(w - 1) - 1 ELSE x

\* two's complement truncation of x to w bits (static_cast to a narrower type)
WrapTo(w, x) == ((x + Pow2(w - 1)) % Pow2(w)) - Pow2(w - 1)

(***************************************************************************)
(* Native types (template parameter T of is / to / from).                  *)
(***************************************************************************)
UserTypes == {"TA", "TB"}
IntegerTypes == {"s7_int", "int", "short", "long"}
RealTypes == {"double", "float"}
ScalarTypes == {"bool", "unsigned char"} \cup IntegerTypes \cup RealTypes
NativeTypes == {"s7_pointer"} \cup ScalarTypes \cup UserTypes
\* the types the if-constexpr chains of is and from name
BuiltinTypes == {"s7_pointer", "std::string_view"} \cup ScalarTypes

\* the byte sequences a std::string_view can hold
Strings == UNION {[1 .. n -> Bytes] : n \in 0 .. MaxStrLen}

Width(T) ==
    CASE T = "short" -> ShortBits
      [] T = "int" -> IntBits
      [] T = "long" -> LongBits
      [] OTHER -> S7IntBits

\* the valid native values of a scalar type T
NativeValues(T) ==
    CASE T = "bool" -> BOOLEAN
      [] T = "unsigned char" -> 0 .. MaxChar
      [] T \in IntegerTypes -> SignedRange(Width(T))
      [] T = "float" -> SignedRange(IntBits)
      [] T = "double" -> SignedRange(S7IntBits)
      [] T = "std::string_view" -> Strings

(***************************************************************************)
(* Dynamic values (s7_pointer).  kind is the runtime kind; tag and let are *)
(* the c-object's type tag and metadata let; v is the payload (for a       *)
(* c-object, the address of the boxed native object).                      *)
(***************************************************************************)
NoTag == 0 - 1
NoLet == 0 - 1

Cell(k, x) == [kind |-> k, v |-> x, tag |-> NoTag, let |-> NoLet]

nullptr == Cell("nullptr", 0)
s7_unspecified == Cell("unspecified", 0)
s7_make_boolean(x) == Cell("boolean", x)
s7_make_integer(x) == Cell("integer", x)
s7_make_real(x) == Cell("real", x)
s7_make_character(x) == Cell("character", x)
\* s7_make_string_with_length(sc, str, len): a string of len bytes
s7_make_string_with_length(str, len) == Cell("string", SubSeq(str, 1, len))
s7_make_c_object(t, p) == [kind |-> "c-object", v |-> p, tag |-> t, let |-> NoLet]
s7_c_object_set_let(obj, l) == [obj EXCEPT !.let = l]

s7_is_boolean(p) == p.kind = "boolean"
s7_is_integer(p) == p.kind = "integer"
\* s7_is_real holds of integers too (and of ratios, which the model leaves out)
s7_is_real(p) == p.kind \in {"integer", "real"}
s7_is_character(p) == p.kind = "character"
s7_is_string(p) == p.kind = "string"
\* s7_string(p): the address of the string's bytes, which the runtime
\* keeps followed by a zero byte
s7_string(p) == p.v \o <<0>>
s7_is_c_object(p) == p.kind = "c-object"
s7_c_object_type(p) == p.tag

(***************************************************************************)
(* State.                                                                  *)
(***************************************************************************)
Instances == {1, 2}
Names == {"f", "g"}
\* the Scheme objects of the host: A and B are constructed with an
\* interpreter each; C is the target of a move
Schemes == {"A", "B", "C"}
NoInstance == 0
\* MethodOp::Add and MethodOp::Sub (Mul and Div run the same code)
MethodOps == {"+", "-"}
\* the runtime's own function for an operator name
Builtin == [fn |-> "builtin"]

VARIABLES
    debugging,  \* the build flag S7_DEBUGGING (validation build when TRUE)
    typeTag,    \* detail::TypeTag<T>::tag : instance -> tag (NoTag: no entry)
    typeLet,    \* detail::TypeTag<T>::let : instance -> let (NoLet: no entry)
    cTypes,     \* per instance: the number of c-types s7_make_c_type made
    lets,       \* per instance: the number of lets s7_inlet made
    heap,       \* the boxed native objects: sequence of dynamic values
    lambda,     \* detail::LambdaTable<L>::lambda, per adapter type L
    lname,      \* detail::LambdaTable<L>::name : instance -> name
    funcs,      \* per instance: name -> the function bound to it
    regs,       \* number of registrations performed so far
    registered, \* per type and instance: make_usertype calls on the live instance
    methods,    \* the methods the lets hold: pairs <<let, operator name>>
    binding,    \* per instance and operator: the function its name is bound to
    substitured_ops, \* Scheme::substitured_ops, per Scheme object
    owner,      \* Scheme::sc, per Scheme object (NoInstance: the null pointer)
    cTypeHooks, \* per instance: the collector hooks of each c-type, by tag
    freed,      \* per interpreter handle: the number of s7_free calls on it
    alive,      \* the Scheme objects whose lifetime has not ended
    last        \* what the last operation did (its observable outcome)

\* the state of the arithmetic operators and of the Scheme objects
opVars == <<methods, binding, substitured_ops, owner>>

\* the state the collector and the lifetimes of the Scheme objects add
gcVars == <<cTypeHooks, freed, alive>>

vars == <<debugging, typeTag, typeLet, cTypes, lets, heap, lambda, lname,
          funcs, regs, registered, last, opVars, gcVars>>

None == "none"
NoOp == [op |-> "none"]

(***************************************************************************)
(* Type registry.                                                          *)
(***************************************************************************)
SharedKey(sc) == 1

\* the key of the registry's maps: reinterpret_cast<uintptr_t>(sc)
TypeTagKey(sc) == sc

\* detail::get_type_tag<T>(sc): m.find(sc)->second
get_type_tag(T, sc) == typeTag[T][TypeTagKey(sc)]

\* detail::get_type_let<T>(sc)
get_type_let(T, sc) == typeLet[T][TypeTagKey(sc)]

\* the name s7_make_c_type stored for a tag: make_usertype passes the
\* type's name, so the c-types entry of a tag names the type it was made for
TypeNameOf(T) == IF T = "TA" THEN "ta" ELSE "tb"

scheme_type(T) ==
    CASE T = "s7_pointer" -> "Any"
      [] T = "bool" -> "Boolean"
      [] T \in IntegerTypes -> "Integer"
      [] T \in RealTypes -> "Real"
      [] T = "std::string_view" -> "String"
      [] T = "unsigned char" -> "Character"
      [] T = "void" -> "Unspecified"
      [] OTHER -> "CObject"

scheme_type_to_string(t) ==
    CASE t = "Any" -> "s7_pointer"
      [] t = "Unspecified" -> "unspecified"
      [] t = "Nil" -> "null"
      [] t = "Boolean" -> "boolean"
      [] t = "Integer" -> "integer"
      [] t = "Real" -> "real"
      [] t = "String" -> "string"
      [] t = "Character" -> "char"
      [] t = "CObject" -> "c-object"
      [] OTHER -> "unknown"

\* detail::type_to_string<T>(sc)
type_to_string(T, sc) ==
    IF scheme_type(T) # "CObject" THEN scheme_type_to_string(scheme_type(T))
    ELSE TypeNameOf(T)

(***************************************************************************)
(* Value converter: is / to / from.                                        *)
(***************************************************************************)
\* the branch of the if-constexpr chain of detail::is that T selects
IsPath(T) == IF T \in BuiltinTypes THEN "builtin" ELSE "c-object"

\* detail::is<T>(sc, p)
is(T, sc, p) ==
    CASE T = "s7_pointer" -> p # nullptr
      [] T = "bool" -> s7_is_boolean(p)
      [] T = "s7_int" -> s7_is_integer(p)
      [] T = "double" -> s7_is_real(p)
      [] T = "std::string_view" -> s7_is_string(p)
      [] T = "unsigned char" -> s7_is_character(p)
      [] T \in {"int", "short", "long"} -> s7_is_integer(p)
      [] T = "float" -> s7_is_real(p)
      [] OTHER -> s7_is_c_object(p) /\ s7_c_object_type(p) = get_type_tag(T, sc)

\* the branch of the if-constexpr chain of detail::to that T selects: the
\* chain names char, not unsigned char, so unsigned char reaches the last
\* (native object) branch
ToPath(T) ==
    IF T \in BuiltinTypes \ {"unsigned char"} THEN "builtin" ELSE "c-object"

\* an outcome of a conversion: a native value, or a fault of the process
\* (a failed assert, or a read through a pointer that is no object's)
Ok(x) == [ok |-> TRUE, val |-> x]
Fault == [ok |-> FALSE, val |-> 0]
AnyOf(T) == {Ok(x) : x \in NativeValues(T)}

\* what a c-object's storage pointer refers to
Deref(p) == p.v

Min(S) == CHOOSE i \in S : \A j \in S : i <= j

\* std::string_view(const char *): the bytes before the first zero byte
StringViewOfCStr(str) ==
    SubSeq(str, 1, Min({i \in DOMAIN str : str[i] = 0}) - 1)

\* detail::to<T>(sc, p): the set of results the build can produce.  A
\* validation build asserts is<T> first.  Reading a value through an
\* accessor of another kind, or through the storage pointer of a value
\* that is no c-object, is undefined: any T, or a fault.
to(T, sc, p) ==
    IF debugging /\ ~is(T, sc, p) THEN {Fault}
    ELSE CASE T = "s7_pointer" -> {Ok(p)}
      [] T = "bool" -> IF s7_is_boolean(p) THEN {Ok(p.v)} ELSE AnyOf(T)
      [] T = "s7_int" -> IF s7_is_integer(p) THEN {Ok(p.v)} ELSE AnyOf(T)
      [] T = "double" -> IF s7_is_real(p) THEN {Ok(p.v)} ELSE AnyOf(T)
      [] T = "std::string_view" ->
            IF s7_is_string(p) THEN {Ok(StringViewOfCStr(s7_string(p)))}
            ELSE AnyOf(T) \cup {Fault}
      [] T \in {"int", "short", "long"} ->
            IF s7_is_integer(p) THEN {Ok(WrapTo(Width(T), p.v))}
            ELSE AnyOf(T)
      [] T = "float" -> IF s7_is_real(p) THEN {Ok(p.v)} ELSE AnyOf(T)
      [] T = "unsigned char" -> AnyOf(T) \cup {Fault}
      [] OTHER -> IF s7_is_c_object(p) THEN {Ok(Deref(p))} ELSE {Fault}

\* the branch of the if-constexpr chain of detail::from that T selects
FromPath(T) == IF T \in BuiltinTypes THEN "builtin" ELSE "c-object"

\* detail::make_c_object(sc, tag, p)
make_c_object(T, sc, tag, p) ==
    s7_c_object_set_let(s7_make_c_object(tag, p), get_type_let(T, sc))

\* detail::from(sc, x) for x of native type T; a native object is boxed at
\* the next free heap address
from(T, sc, x) ==
    CASE T = "s7_pointer" -> x
      [] T = "bool" -> s7_make_boolean(x)
      [] T \in IntegerTypes -> s7_make_integer(x)
      [] T \in RealTypes -> s7_make_real(x)
      [] T = "std::string_view" -> s7_make_string_with_length(x, Len(x))
      [] T = "unsigned char" -> s7_make_character(x)
      [] T = "void" -> s7_unspecified
      [] OTHER -> make_c_object(T, sc, get_type_tag(T, sc), x)

(***************************************************************************)
(* Initial states.                                                         *)
(***************************************************************************)
NoEntry == [sc \in Instances |-> NoTag]

\* s7_inlet(sc, nil): the n-th let instance sc makes; lets of different
\* instances are different objects
LetId(sc, n) == n * Cardinality(Instances) + (sc - 1)

\* the operators are the runtime's own, no let holds a method, and the
\* Scheme objects A and B hold the two interpreters
InitOps ==
    /\ methods = {}
    /\ binding = [sc \in Instances |-> [op \in MethodOps |-> Builtin]]
    /\ substitured_ops = [s \in Schemes |-> {}]
    /\ owner = [s \in Schemes |->
                  CASE s = "A" -> 1 [] s = "B" -> 2 [] OTHER -> NoInstance]

\* the hooks make_usertype<T> installs for the c-type it makes: gc_free
\* deletes the stored T, gc_mark marks the object's let
DefaultHooks(T) == [type |-> T, gc_mark |-> "default", gc_free |-> "default"]

\* no interpreter was freed and every Scheme object is in its lifetime
InitLifetimes ==
    /\ freed = [sc \in Instances \cup {NoInstance} |-> 0]
    /\ alive = Schemes

\* the state after constructing the interpreters: nothing registered
InitEmpty ==
    /\ debugging \in BOOLEAN
    /\ typeTag = [T \in UserTypes |-> NoEntry]
    /\ typeLet = [T \in UserTypes |-> NoEntry]
    /\ cTypes = [sc \in Instances |-> 0]
    /\ lets = [sc \in Instances |-> 0]
    /\ heap = <<>>
    /\ regs = 0
    /\ registered = [T \in UserTypes |-> [sc \in Instances |-> 0]]
    /\ last = NoOp
    /\ InitOps
    /\ cTypeHooks = [sc \in Instances |-> <<>>]
    /\ InitLifetimes

\* the state after the host registered TA, then TB, in every instance
InitRegistered ==
    /\ debugging \in BOOLEAN
    /\ typeTag = [T \in UserTypes |->
                    [sc \in Instances |-> IF T = "TA" THEN 0 ELSE 1]]
    /\ typeLet = [T \in UserTypes |->
                    [sc \in Instances |->
                        LetId(sc, IF T = "TA" THEN 0 ELSE 1)]]
    /\ cTypes = [sc \in Instances |-> 2]
    /\ lets = [sc \in Instances |-> 2]
    /\ heap = <<>>
    /\ regs = 0
    /\ registered = [T \in UserTypes |-> [sc \in Instances |-> 1]]
    /\ last = NoOp
    /\ InitOps
    /\ cTypeHooks = [sc \in Instances |->
                       <<DefaultHooks("TA"), DefaultHooks("TB")>>]
    /\ InitLifetimes

(***************************************************************************)
(* Conversions of scalars: from<T>, then is<T> and to<T> of the result.    *)
(***************************************************************************)
RoundTrip(sc, T, x) ==
    LET p == from(T, sc, x) IN
    \E back \in to(T, sc, p) :
        /\ last' = [op |-> "roundtrip", T |-> T, input |-> Ok(x), boxed |-> p,
                    isT |-> is(T, sc, p), back |-> back,
                    fromPath |-> FromPath(T), isPath |-> IsPath(T),
                    toPath |-> ToPath(T)]
        /\ UNCHANGED <<debugging, typeTag, typeLet, cTypes, lets, heap,
                       lambda, lname, funcs, regs, registered, opVars, gcVars>>

ConvertScalar ==
    \E sc \in Instances, T \in ScalarTypes :
        \E x \in NativeValues(T) : RoundTrip(sc, T, x)

ConvertString ==
    \E sc \in Instances, str \in Strings :
        RoundTrip(sc, "std::string_view", str)

\* is<T> and to<T> of a runtime integer x, for a narrower integer type T
Narrow(sc, T, x) ==
    LET p == s7_make_integer(x) IN
    \E back \in to(T, sc, p) :
        /\ last' = [op |-> "narrow", T |-> T, wide |-> x,
                    accepted |-> is(T, sc, p), back |-> back]
        /\ UNCHANGED <<debugging, typeTag, typeLet, cTypes, lets, heap,
                       lambda, lname, funcs, regs, registered, opVars, gcVars>>

NarrowerTypes == {"int", "short", "long"}

NarrowInteger ==
    \E sc \in Instances, T \in NarrowerTypes :
        \E x \in SignedRange(S7IntBits) : Narrow(sc, T, x)

NextConv == ConvertScalar \/ ConvertString \/ NarrowInteger

InitConv == InitRegistered /\ lambda = <<>> /\ lname = <<>> /\ funcs = <<>>

SpecConv == InitConv /\ [][NextConv]_vars

\* C10: for every scalar type T (boolean, integer, real, character) and
\* every valid native x, is<T>(from<T>(x)) holds, to<T>(from<T>(x)) = x,
\* and from, is and to all take the built-in branch for T.
C10_ScalarRoundTrip ==
    (last.op = "roundtrip" /\ last.T \in ScalarTypes) =>
        /\ last.isT
        /\ last.back = last.input
        /\ last.fromPath = "builtin"
        /\ last.isPath = "builtin"
        /\ last.toPath = "builtin"

\* the round trip holds for every scalar type but unsigned char
ScalarRoundTripExceptChar ==
    (last.op = "roundtrip" /\ last.T \in ScalarTypes \ {"unsigned char"}) =>
        /\ last.isT
        /\ last.back = last.input
        /\ last.toPath = "builtin"

\* C11: for every byte sequence s held in a std::string_view, zero bytes
\* included, from produces a runtime string of length |s| with the same
\* bytes, and to<std::string_view> of it is s, with the same length.
C11_StringRoundTripKeepsZeroBytes ==
    (last.op = "roundtrip" /\ last.T = "std::string_view") =>
        /\ s7_is_string(last.boxed)
        /\ last.boxed.v = last.input.val
        /\ last.back = last.input
        /\ Len(last.back.val) = Len(last.input.val)

\* from keeps every byte, and the round trip holds of the strings that
\* hold no zero byte
StringRoundTripWithoutZeroBytes ==
    (last.op = "roundtrip" /\ last.T = "std::string_view") =>
        /\ s7_is_string(last.boxed)
        /\ last.boxed.v = last.input.val
        /\ (\A i \in DOMAIN last.input.val : last.input.val[i] # 0)
              => last.back = last.input

\* C12: narrowing is never an error: for every runtime integer x and
\* narrower native integer type T of width w, is<T> accepts x and to<T>
\* returns the value of T's range congruent to x modulo 2^w; hence
\* to<T>(from(y)) = y for every y of T's range.
C12_NarrowingTruncates ==
    /\ last.op = "narrow" =>
          /\ last.accepted
          /\ last.back.ok
          /\ last.back.val \in SignedRange(Width(last.T))
          /\ (last.back.val - last.wide) % Pow2(Width(last.T)) = 0
    /\ (last.op = "roundtrip" /\ last.T \in NarrowerTypes) =>
          /\ last.isT
          /\ last.back = last.input

\* a runtime integer outside the range of short was converted to short
C12_Witness ==
    /\ last.op = "narrow"
    /\ last.T = "short"
    /\ last.wide \notin SignedRange(ShortBits)
    /\ last.back.ok
    /\ last.back.val # last.wide

(***************************************************************************)
(* Native callables and their adapter types.                               *)
(*                                                                         *)
(* make_s7_function stores the callable in LambdaTable<L>, where L is the  *)
(* type of as_lambda(fn): for a function pointer, the closure type of the  *)
(* as_lambda instantiation of its signature (one type for all pointers of  *)
(* one signature); for a lambda, the lambda's own type (one type for all   *)
(* closures the same lambda expression creates).                           *)
(***************************************************************************)
MaxRegs == 2

AdapterTypes == {"fp_bool_short", "lam_ta_any"}

\* FunctionTraits<L>: the declared parameter types and the return type
Params(L) ==
    CASE L = "fp_bool_short" -> <<"bool", "short">>
      [] L = "lam_ta_any" -> <<"TA", "s7_pointer">>
      [] L = "ov_bool" -> <<"bool">>
      [] L = "ov_double" -> <<"double">>
      [] L = "ov_int" -> <<"s7_int">>
      [] L = "ov_var" -> <<"VarArgs<s7_int>">>
      [] L = "ov_ta" -> <<"TA">>
      [] L = "lam_varargs" -> <<"VarArgs<bool>">>

ReturnType(L) ==
    CASE L = "fp_bool_short" -> "short"
      [] L = "lam_ta_any" -> "void"
      [] L = "ov_bool" -> "void"
      [] L = "ov_double" -> "void"
      [] L = "ov_int" -> "short"
      [] L = "ov_var" -> "short"
      [] L = "ov_ta" -> "s7_pointer"
      [] L = "lam_varargs" -> "short"

Arity(L) == Len(Params(L))

\* the longest argument list a call carries: one more than any arity
MaxArgs == 3

\* two function pointers of one signature, two closures of one lambda
Callables ==
    { [id |-> "fnA", L |-> "fp_bool_short"],
      [id |-> "fnB", L |-> "fp_bool_short"],
      [id |-> "closure1", L |-> "lam_ta_any"],
      [id |-> "closure2", L |-> "lam_ta_any"] }

\* what a native callable may return
ReturnValues(R) ==
    CASE R = "void" -> {0}
      [] R = "bool" -> BOOLEAN
      [] R = "s7_pointer" -> {nullptr, s7_make_integer(0)}
      [] OTHER -> {0, 1}

NoFn == [kind |-> "none"]
NoErr == [type |-> "none"]

\* the argument lists a call can carry
ArgValues(sc) ==
    { s7_make_boolean(TRUE), s7_make_integer(1),
      from("TA", sc, 0), from("TB", sc, 0) }

RECURSIVE SeqsUpTo(_, _)
SeqsUpTo(S, n) ==
    IF n = 0 THEN {<<>>}
    ELSE LET shorter == SeqsUpTo(S, n - 1) IN
         shorter \cup {Append(q, e) : q \in {r \in shorter : Len(r) = n - 1},
                                      e \in S}

(***************************************************************************)
(* The call adapter.                                                       *)
(***************************************************************************)
\* s7_wrong_type_arg_error(sc, caller, arg_n, arg, descr)
s7_wrong_type_arg_error(caller, n, arg, descr) ==
    [type |-> "wrong-type-arg", caller |-> caller, pos |-> n, arg |-> arg,
     expected |-> descr]

\* the conversions to<Args>(sc, arr[Is])... of a whole argument pack: every
\* combination of the outcomes of the single conversions
RECURSIVE ConvertAll(_, _, _)
ConvertAll(types, sc, arr) ==
    IF types = <<>> THEN {<<>>}
    ELSE {<<c>> \o rest : c \in to(Head(types), sc, Head(arr)),
                          rest \in ConvertAll(Tail(types), sc, Tail(arr))}

Outcome(inv, res, err) == [invoked |-> inv, result |-> res, error |-> err]

\* fn(to<Args>(sc, arr[Is])...) and the conversion of its result
Invoke(L, sc, arr) ==
    LET fn == lambda[L] IN
    { IF \E i \in 1 .. Len(conv) : ~conv[i].ok
      THEN Outcome(<<>>, nullptr, [type |-> "fault"])
      ELSE Outcome(<<[fn |-> fn,
                      actuals |-> [i \in 1 .. Len(conv) |-> conv[i].val],
                      returned |-> r]>>,
                   from(ReturnType(L), sc, r), NoErr) :
        conv \in ConvertAll(Params(L), sc, arr),
        r \in ReturnValues(ReturnType(L)) }

LastWrongType(bools) ==
    CHOOSE i \in DOMAIN bools : ~bools[i] /\ \A j \in DOMAIN bools : j > i => bools[j]

\* a build whose checks do not depend on the flag
EveryBuild == TRUE

\* the checks between #ifdef S7_DEBUGGING and #endif are compiled in
S7_DEBUGGING == debugging

\* the position std::find reports in the array of is<Args> results
FirstWrongType(bools) == Min({i \in DOMAIN bools : ~bools[i]})

\* detail::call_fn<F, R, Args...>(sc, args): the set of its outcomes
call_fn(L, sc, args) ==
    LET NumArgs == Arity(L)
        arr == [i \in 1 .. NumArgs |-> args[i]]
        bools == [i \in 1 .. NumArgs |-> is(Params(L)[i], sc, arr[i])]
    IN  IF S7_DEBUGGING /\ \E i \in 1 .. NumArgs : ~bools[i]
        THEN LET i == FirstWrongType(bools) IN
             {Outcome(<<>>, nullptr,
                      s7_wrong_type_arg_error(lname[L][sc], i, args[i],
                          type_to_string(Params(L)[i], sc)))}
        ELSE Invoke(L, sc, arr)

\* detail::make_s7_function(sc, name, fn): stores the callable and the name
\* in the tables of its adapter type
make_s7_function(sc, name, c) ==
    /\ lambda' = [lambda EXCEPT ![c.L] = c.id]
    /\ lname' = [lname EXCEPT ![c.L][sc] = name]

\* Scheme::define_function(name, doc, func) for a fixed-arity callable
DefineFunction(sc, name, c) ==
    /\ regs < MaxRegs
    /\ make_s7_function(sc, name, c)
    /\ funcs' = [funcs EXCEPT ![sc][name] =
                    [kind |-> "function", L |-> c.L, fn |-> c.id,
                     required |-> Arity(c.L), optional |-> 0,
                     rest |-> FALSE]]
    /\ regs' = regs + 1
    /\ last' = NoOp
    /\ UNCHANGED <<debugging, typeTag, typeLet, cTypes, lets, heap,
                   registered, opVars, gcVars>>

\* the runtime's check of the argument count against the registered bounds
ArgCountOk(f, n) ==
    /\ n >= f.required
    /\ f.rest \/ n <= f.required + f.optional

\* the interpreter applies the function bound to name to args
CallFunction(sc, name, args) ==
    LET f == funcs[sc][name] IN
    /\ f.kind = "function"
    /\ \E out \in (IF ArgCountOk(f, Len(args)) THEN call_fn(f.L, sc, args)
                   ELSE {Outcome(<<>>, nullptr,
                                 [type |-> "wrong-number-of-args"])}) :
           last' = [op |-> "call", inst |-> sc, callee |-> name,
                    bound |-> f, arglist |-> args, out |-> out]
    /\ UNCHANGED <<debugging, typeTag, typeLet, cTypes, lets, heap, lambda,
                   lname, funcs, regs, registered, opVars, gcVars>>

\* the call returns to the interpreter's top level
Return ==
    /\ last.op \in {"call", "predicate"}
    /\ last' = NoOp
    /\ UNCHANGED <<debugging, typeTag, typeLet, cTypes, lets, heap, lambda,
                   lname, funcs, regs, registered, opVars, gcVars>>

Init ==
    /\ InitRegistered
    /\ lambda = [L \in AdapterTypes |-> None]
    /\ lname = [L \in AdapterTypes |-> [sc \in Instances |-> None]]
    /\ funcs = [sc \in Instances |-> [n \in Names |-> NoFn]]

\* the host registers and the interpreter calls only from its top level
AtTopLevel == last.op \notin {"call", "predicate"}

Register ==
    /\ AtTopLevel
    /\ \E sc \in Instances, name \in Names, c \in Callables :
            DefineFunction(sc, name, c)

Call ==
    /\ AtTopLevel
    /\ \E sc \in Instances, name \in Names :
            \E args \in SeqsUpTo(ArgValues(sc), MaxArgs) :
                CallFunction(sc, name, args)

Next == Register \/ Call \/ Return

Spec == Init /\ [][Next]_vars

(***************************************************************************)
(* Properties of the call adapter.                                         *)
(***************************************************************************)
\* the call the last step made, when it passed the runtime's count check
CalledL == last.bound.L
ExactArity == last.op = "call" /\ Len(last.arglist) = Arity(CalledL)
Matches(i) == is(Params(CalledL)[i], last.inst, last.arglist[i])

\* C1: in a validation build, a call with the declared number of arguments
\* in which some position fails is<Ai> raises WrongType naming the 1-based
\* index of the first failing position, the value at that position and the
\* display name of Ai, and invokes no native callable.
C1_WrongTypeNamesFirstMismatch ==
    (ExactArity /\ debugging /\ \E i \in 1 .. Arity(CalledL) : ~Matches(i)) =>
        /\ last.out.invoked = <<>>
        /\ last.out.error.type = "wrong-type-arg"
        /\ ~Matches(last.out.error.pos)
        /\ \A j \in 1 .. (last.out.error.pos - 1) : Matches(j)
        /\ last.out.error.arg = last.arglist[last.out.error.pos]
        /\ last.out.error.expected =
              type_to_string(Params(CalledL)[last.out.error.pos], last.inst)

\* a validation-build call in which both positions fail reported position 1
C1_Witness ==
    /\ ExactArity /\ debugging
    /\ ~Matches(1) /\ ~Matches(2)
    /\ last.out.error.type = "wrong-type-arg"
    /\ last.out.error.pos = 1

\* what C2 says of the conversions: one invocation, the i-th parameter is
\* to<Ai> of the i-th argument, the result is from<R> of what was returned
\* (unspecified for void)
ConvertsInOrder ==
    /\ Len(last.out.invoked) = 1
    /\ \A i \in 1 .. Arity(CalledL) :
          Ok(last.out.invoked[1].actuals[i])
              \in to(Params(CalledL)[i], last.inst, last.arglist[i])
    /\ last.out.error = NoErr
    /\ last.out.result =
          IF ReturnType(CalledL) = "void" THEN s7_unspecified
          ELSE from(ReturnType(CalledL), last.inst,
                    last.out.invoked[1].returned)

AllMatch == ExactArity /\ \A i \in 1 .. Arity(CalledL) : Matches(i)

\* C2: a call with exactly n arguments that each satisfy their declared
\* type invokes the native callable the name was registered with exactly
\* once, passing to<Ai> of the i-th argument as the i-th parameter, and
\* returns from<R> of its result (unspecified when R is void).
C2_InvokesUnderlyingOnceInOrder ==
    AllMatch => (ConvertsInOrder /\ last.out.invoked[1].fn = last.bound.fn)

\* the conversions of C2 hold of whichever callable the adapter's table holds
CallConvertsInOrder == AllMatch => ConvertsInOrder

\* C7: calling a registered name invokes the native callable supplied when
\* that name was registered in that instance, whatever was registered since.
C7_CallInvokesRegisteredCallable ==
    (last.op = "call" /\ last.out.invoked # <<>>) =>
        last.out.invoked[1].fn = last.bound.fn

(***************************************************************************)
(* The overload resolver.                                                  *)
(***************************************************************************)
\* the adapter types of the overload candidates
CandidateTypes ==
    {"ov_bool", "fp_bool_short", "ov_double", "ov_int", "ov_var", "ov_ta"}

\* the overloads the host declares: the candidates in declaration order
OverloadSets == {"ov12", "ovAmb", "ovVar", "ovPtr", "ov121"}

Candidates(S) ==
    CASE S = "ov12" -> <<"ov_bool", "fp_bool_short">>
      [] S = "ovAmb" -> <<"ov_double", "ov_int">>
      [] S = "ovVar" -> <<"ov_bool", "ov_var">>
      [] S = "ovPtr" -> <<"ov_ta">>
      [] S = "ov121" -> <<"ov_double", "fp_bool_short", "ov_int">>

\* is_varargs_v<T> and VarArgs<T>::Type
is_varargs_v(T) == T \in {"VarArgs<s7_int>", "VarArgs<bool>"}
VarArgsType(T) == IF T = "VarArgs<bool>" THEN "bool" ELSE "s7_int"

\* function_has_varargs<F>()
function_has_varargs(L) ==
    IF Arity(L) = 0 THEN FALSE ELSE is_varargs_v(Params(L)[Arity(L)])

Min2(a, b) == IF a <= b THEN a ELSE b
Max2(a, b) == IF a >= b THEN a ELSE b

\* detail::vmin and detail::vmax over a pack (the recursive overload of vmax
\* calls vmin on the rest of the pack)
RECURSIVE vmin(_)
vmin(pack) ==
    IF Len(pack) = 1 THEN pack[1] ELSE Min2(pack[1], vmin(Tail(pack)))

vmax(pack) ==
    IF Len(pack) = 1 THEN pack[1] ELSE Max2(pack[1], vmin(Tail(pack)))

Arities(cands) == [k \in 1 .. Len(cands) |-> Arity(cands[k])]
min_arity(cands) == vmin(Arities(cands))
max_arity(cands) == vmax(Arities(cands))

\* Scheme::type_of(p), over the kinds of value the model has
type_of(p) ==
    CASE p.kind = "unspecified" -> "Unspecified"
      [] p.kind = "boolean" -> "Boolean"
      [] p.kind = "integer" -> "Integer"
      [] p.kind = "real" -> "Real"
      [] p.kind = "character" -> "Character"
      [] p.kind = "c-object" -> "CObject"
      [] OTHER -> "Unknown"

\* Scheme::type_is_fn<T, OutputType>(): #t, or the symbol <type name>?
RECURSIVE type_is_fn(_, _)
type_is_fn(T, sc) ==
    IF T = "s7_pointer" THEN <<"#t">>
    ELSE IF is_varargs_v(T) THEN type_is_fn(VarArgsType(T), sc)
    ELSE <<type_to_string(T, sc), "?">>

\* Scheme::make_signature(&F::operator()): the return type's predicate, then
\* the parameters' predicates; circular for a variadic callable
make_signature(L, sc) ==
    [circular |-> function_has_varargs(L),
     types |-> <<type_is_fn(ReturnType(L), sc)>> \o
               [i \in 1 .. Arity(L) |-> type_is_fn(Params(L)[i], sc)]]

\* no candidate was invoked and the result is the null pointer
NoMatch == Outcome(<<>>, nullptr, NoErr)

\* detail::call_fn_varargs<L, R, T>(sc, args): the callable receives the
\* cursor over the whole argument list
call_fn_varargs(L, sc, args) ==
    { Outcome(<<[fn |-> lambda[L], actuals |-> args, returned |-> r]>>,
              from(ReturnType(L), sc, r), NoErr) :
        r \in ReturnValues(ReturnType(L)) }

AtLeastNumArgs(L, length) == length >= Arity(L)

\* the test length != NumArgs of _match_fn, negated
LengthIsNumArgs(L, length) == length = Arity(L)

\* detail::_match_fn<L, R, Args...>(sc, args, length)
_match_fn(L, sc, args, length) ==
    IF ~LengthIsNumArgs(L, length) THEN {NoMatch}
    ELSE LET NumArgs == Arity(L)
             arr == [i \in 1 .. NumArgs |-> args[i]]
             bools == [i \in 1 .. NumArgs |-> is(Params(L)[i], sc, arr[i])]
         IN  IF \E i \in 1 .. NumArgs : ~bools[i] THEN {NoMatch}
             ELSE Invoke(L, sc, arr)

\* detail::match_fn<F>(sc, args, length)
match_fn(L, sc, args, length) ==
    IF function_has_varargs(L) THEN call_fn_varargs(L, sc, args)
    ELSE _match_fn(L, sc, args, length)

\* the initializer list { match_fn<Fns>(sc, args, length)... } of the
\* results array: one call of match_fn per candidate, left to right; a
\* fault ends the evaluation
RECURSIVE MatchAll(_, _, _, _)
MatchAll(cands, sc, args, length) ==
    IF cands = <<>> THEN {<<>>}
    ELSE UNION { IF o.error # NoErr THEN {<<o>>}
                 ELSE {<<o>> \o rest :
                        rest \in MatchAll(Tail(cands), sc, args, length)} :
                 o \in match_fn(Head(cands), sc, args, length) }

ArgTypesReversed(args) ==
    [i \in 1 .. Len(args) |->
        scheme_type_to_string(type_of(args[Len(args) + 1 - i]))]

\* the list of symbols scheme_type_to_string(type_of(arg)) the resolver
\* builds from the argument list
ArgTypes(args) ==
    [i \in 1 .. Len(args) |-> scheme_type_to_string(type_of(args[i]))]

\* what the dispatch function of _make_overload does with the results array
Resolve(cands, sc, args, results) ==
    LET ran == SelectSeq([k \in 1 .. Len(results) |-> k],
                         LAMBDA k : results[k].invoked # <<>>)
        invoked == [j \in 1 .. Len(ran) |->
                       [cand |-> ran[j], fn |-> results[ran[j]].invoked[1].fn,
                        actuals |-> results[ran[j]].invoked[1].actuals,
                        returned |-> results[ran[j]].invoked[1].returned]]
        found == {k \in 1 .. Len(results) : results[k].result # nullptr}
    IN  IF results[Len(results)].error # NoErr
        THEN [invoked |-> invoked, result |-> nullptr,
              error |-> results[Len(results)].error, selected |-> 0]
        ELSE IF found # {}
        THEN [invoked |-> invoked, result |-> results[Min(found)].result,
              error |-> NoErr, selected |-> Min(found)]
        ELSE [invoked |-> invoked, result |-> nullptr,
              error |-> [type |-> "no-overload-match",
                         argtypes |-> ArgTypes(args),
                         signatures |-> [k \in 1 .. Len(cands) |->
                                            make_signature(cands[k], sc)]],
              selected |-> 0]

\* the dispatch function _make_overload returns, applied to args
OverloadDispatch(cands, sc, args) ==
    { Resolve(cands, sc, args, results) :
        results \in MatchAll(cands, sc, args, Len(args)) }

\* the callable the host supplies for candidate k of overload S
CandidateFn(S, k) == <<S, k>>

\* Scheme::_make_overload(name, fns...): set(fns), ... stores every
\* candidate and the name in the tables of the candidate's adapter type
_make_overload(sc, name, S) ==
    LET cands == Candidates(S)
        slot(L) == Min({k \in 1 .. Len(cands) : cands[k] = L})
    IN  /\ lambda' = [L \in DOMAIN lambda |->
                        IF \E k \in 1 .. Len(cands) : cands[k] = L
                        THEN CandidateFn(S, slot(L)) ELSE lambda[L]]
        /\ lname' = [L \in DOMAIN lname |->
                        IF \E k \in 1 .. Len(cands) : cands[k] = L
                        THEN [lname[L] EXCEPT ![sc] = name] ELSE lname[L]]

\* Scheme::define_function(name, doc, Overload<Fns...>)
DefineOverload(sc, name, S) ==
    LET cands == Candidates(S)
        has_varargs == \E k \in 1 .. Len(cands) : function_has_varargs(cands[k])
        MinArgs == min_arity(cands)
    IN  /\ regs < MaxRegs
        /\ _make_overload(sc, name, S)
        /\ funcs' = [funcs EXCEPT ![sc][name] =
                        [kind |-> "overload", set |-> S, cands |-> cands,
                         required |-> MinArgs,
                         optional |-> IF has_varargs THEN 0
                                      ELSE max_arity(cands) - MinArgs,
                         rest |-> has_varargs]]
        /\ regs' = regs + 1
        /\ last' = NoOp
        /\ UNCHANGED <<debugging, typeTag, typeLet, cTypes, lets, heap,
                       registered, opVars, gcVars>>

\* the interpreter applies the overloaded function bound to name to args
CallOverload(sc, name, args) ==
    LET f == funcs[sc][name] IN
    /\ f.kind = "overload"
    /\ \E out \in (IF ArgCountOk(f, Len(args))
                   THEN OverloadDispatch(f.cands, sc, args)
                   ELSE {[invoked |-> <<>>, result |-> nullptr,
                          error |-> [type |-> "wrong-number-of-args"],
                          selected |-> 0]}) :
           last' = [op |-> "call", inst |-> sc, callee |-> name,
                    bound |-> f, arglist |-> args, out |-> out]
    /\ UNCHANGED <<debugging, typeTag, typeLet, cTypes, lets, heap, lambda,
                   lname, funcs, regs, registered, opVars, gcVars>>

\* the argument values of the calls of overloaded names
OverloadArgValues(sc) ==
    {s7_make_boolean(TRUE), s7_make_integer(1), from("TA", sc, 0)}

InitOverload ==
    /\ InitRegistered
    /\ lambda = [L \in CandidateTypes |-> None]
    /\ lname = [L \in CandidateTypes |-> [sc \in Instances |-> None]]
    /\ funcs = [sc \in Instances |-> [n \in Names |-> NoFn]]

RegisterOverload ==
    /\ AtTopLevel
    /\ \E sc \in Instances, name \in Names, S \in OverloadSets :
            DefineOverload(sc, name, S)

CallOverloaded ==
    /\ AtTopLevel
    /\ \E sc \in Instances, name \in Names :
            \E args \in SeqsUpTo(OverloadArgValues(sc), MaxArgs) :
                CallOverload(sc, name, args)

NextOverload == RegisterOverload \/ CallOverloaded \/ Return

SpecOverload == InitOverload /\ [][NextOverload]_vars

(***************************************************************************)
(* Properties of the overload resolver.                                    *)
(***************************************************************************)
\* the last step called an overloaded name and the runtime's count check
\* let the call through to the dispatch function
Resolved ==
    /\ last.op = "call"
    /\ last.bound.kind = "overload"
    /\ last.out.error.type # "wrong-number-of-args"

Cands == last.bound.cands
NumCands == Len(Cands)
IsVariadic(k) == function_has_varargs(Cands[k])

\* candidate k's arity and every positional type match the argument list;
\* a variadic candidate (minimum arity 0) matches on arity alone
CandidateMatches(k) ==
    IF IsVariadic(k) THEN TRUE
    ELSE /\ Len(last.arglist) = Arity(Cands[k])
         /\ \A i \in 1 .. Arity(Cands[k]) :
               is(Params(Cands[k])[i], last.inst, last.arglist[i])

Matching == {k \in 1 .. NumCands : CandidateMatches(k)}
InvokedCands == {last.out.invoked[j].cand : j \in 1 .. Len(last.out.invoked)}

\* C3: overload resolution is first-match with immediate return: the first
\* candidate in declaration order whose arity and positional types match
\* is invoked, its result is returned, and no other candidate is invoked
\* during the call.
C3_FirstMatchOnly ==
    (Resolved /\ Matching # {}) =>
        /\ Len(last.out.invoked) = 1
        /\ last.out.invoked[1].cand = Min(Matching)
        /\ last.out.error = NoErr
        /\ last.out.result =
              from(ReturnType(Cands[Min(Matching)]), last.inst,
                   last.out.invoked[1].returned)

\* the result the resolver returns is that of the first matching candidate
\* whenever that candidate's result is not the null pointer
FirstNonNullIsReturned ==
    (Resolved /\ last.out.error = NoErr) =>
        /\ last.out.selected \in Matching
        /\ \A k \in Matching :
              k < last.out.selected =>
                 \E j \in 1 .. Len(last.out.invoked) :
                    /\ last.out.invoked[j].cand = k
                    /\ from(ReturnType(Cands[k]), last.inst,
                            last.out.invoked[j].returned) = nullptr

\* C4: a fixed-arity candidate whose arity differs from the number of
\* actual arguments is never invoked, whatever the arguments are; with
\* candidates of arities 1 and 2, a call with two arguments that match the
\* types of the 2-arity candidate invokes and selects that candidate.
C4_ArityMismatchNeverInvoked ==
    Resolved =>
        /\ \A k \in InvokedCands :
              IsVariadic(k) \/ Arity(Cands[k]) = Len(last.arglist)
        /\ (last.bound.set = "ov12" /\ CandidateMatches(2)) =>
              /\ InvokedCands = {2}
              /\ last.out.selected = 2
              /\ last.out.result =
                    from(ReturnType(Cands[2]), last.inst,
                         last.out.invoked[1].returned)

\* a call with two arguments, the first a boolean as the 1-arity candidate
\* wants, selected the 2-arity candidate
C4_Witness ==
    /\ Resolved
    /\ last.bound.set = "ov12"
    /\ Len(last.arglist) = 2
    /\ is("bool", last.inst, last.arglist[1])
    /\ last.out.selected = 2
    /\ InvokedCands = {2}

C6_VariadicOnlyWhenReached ==
    Resolved =>
        \A k \in 1 .. NumCands :
            (IsVariadic(k) /\ k \in InvokedCands) =>
                /\ \A e \in 1 .. (k - 1) : ~CandidateMatches(e)
                /\ last.out.selected = k

\* the variadic candidate is invoked in every call that reaches the resolver
VariadicAlwaysInvoked ==
    Resolved => \A k \in 1 .. NumCands : IsVariadic(k) => k \in InvokedCands

\* the overloaded functions registered whose candidates are all fixed-arity
FixedOverloads ==
    { f \in {funcs[sc][n] : sc \in Instances, n \in Names} :
        /\ f.kind = "overload"
        /\ \A k \in 1 .. Len(f.cands) : ~function_has_varargs(f.cands[k]) }

AritySet(f) == {Arity(f.cands[k]) : k \in 1 .. Len(f.cands)}
Least(S) == CHOOSE m \in S : \A x \in S : m <= x
Greatest(S) == CHOOSE m \in S : \A x \in S : m >= x

\* C26: an overloaded name whose candidates are all fixed-arity is
\* registered with required = min(arities) and optional = max(arities) -
\* min(arities), so that a call whose argument count equals any candidate's
\* arity passes the runtime's count check and reaches the resolver.
C26_AcceptsMinToMaxArity ==
    \A f \in FixedOverloads :
        /\ f.required = Least(AritySet(f))
        /\ f.optional = Greatest(AritySet(f)) - Least(AritySet(f))
        /\ ~f.rest
        /\ \A n \in AritySet(f) : ArgCountOk(f, n)

\* what is registered: the minimum is right, and the upper bound is the
\* larger of the first arity and the minimum of the others
RegisteredUpToFirstOrMinOfRest ==
    \A f \in FixedOverloads :
        LET first == Arity(f.cands[1])
            others == {Arity(f.cands[k]) : k \in 2 .. Len(f.cands)}
        IN  /\ f.required = Least(AritySet(f))
            /\ ~f.rest
            /\ f.required + f.optional =
                  IF others = {} THEN first ELSE Max2(first, Least(others))

\* with one or two candidates the registered bounds are the minimum and
\* the maximum arity
UpToTwoCandidatesRegisteredRight ==
    \A f \in FixedOverloads :
        Len(f.cands) <= 2 =>
            /\ f.required = Least(AritySet(f))
            /\ f.optional = Greatest(AritySet(f)) - Least(AritySet(f))

\* C27: the resolver raises no-overload-match only for calls in which no
\* candidate was invoked: whenever a candidate matched and its callable ran,
\* the call returns that callable's result, whatever its value (the null
\* pointer included), and no later candidate's result replaces it.
C27_InvokedResultIsReturned ==
    (Resolved /\ last.out.invoked # <<>>) =>
        /\ last.out.error.type # "no-overload-match"
        /\ last.out.error = NoErr =>
              last.out.result =
                 from(ReturnType(Cands[last.out.invoked[1].cand]), last.inst,
                      last.out.invoked[1].returned)

\* no-overload-match is raised exactly when every candidate invoked
\* produced the null pointer (none invoked included)
NoMatchIffAllResultsNull ==
    Resolved =>
        (last.out.error.type = "no-overload-match" <=>
            \A j \in 1 .. Len(last.out.invoked) :
                from(ReturnType(Cands[last.out.invoked[j].cand]), last.inst,
                     last.out.invoked[j].returned) = nullptr)

(***************************************************************************)
(* Registration of native types: make_usertype, and the make-T and T?      *)
(* functions it defines.                                                   *)
(***************************************************************************)
MaxTypeRegs == 3
MaxHeap == 2

\* the adapter type of the default constructor lambda of make_usertype<T>
CtorType(T) == IF T = "TA" THEN "ctor_TA" ELSE "ctor_TB"
CtorTypes == {CtorType(T) : T \in UserTypes}

\* the names make_usertype defines: make-<name> and <name>?
CtorName(T) == <<"make-", TypeNameOf(T)>>
PredName(T) == <<TypeNameOf(T), "?">>
TypeFnNames == {CtorName(T) : T \in UserTypes} \cup
               {PredName(T) : T \in UserTypes}

insert(m, key, val) == IF m[key] = NoTag THEN [m EXCEPT ![key] = val] ELSE m

\* std::unordered_map::insert_or_assign(key, val)
insert_or_assign(m, key, val) == [m EXCEPT ![key] = val]

\* Scheme::make_usertype<T>(name): a fresh c-type tag and a fresh let are
\* stored in the registry; make-<name> is defined with the closure
\* [this, tag] and <name>? with the predicate is<T>
\* the registry and the runtime's counters after make_usertype<T> got tag
\* from s7_make_c_type and let from s7_inlet
RegistryUpdate(sc, T, tag, let) ==
    /\ cTypes' = [cTypes EXCEPT ![sc] = tag + 1]
    /\ lets' = [lets EXCEPT ![sc] = @ + 1]
    /\ typeTag' = [typeTag EXCEPT
                     ![T] = insert_or_assign(@, TypeTagKey(sc), tag)]
    /\ typeLet' = [typeLet EXCEPT
                     ![T] = insert_or_assign(@, TypeTagKey(sc), let)]
    /\ registered' = [registered EXCEPT ![T][sc] = @ + 1]
    /\ cTypeHooks' = [cTypeHooks EXCEPT ![sc] = Append(@, DefaultHooks(T))]

\* the functions make_usertype<T> defines in instance sc: make-<name>
\* with the closure [this, tag], and <name>?
TypeFunctions(sc, T, closure) ==
    [funcs EXCEPT
       ![sc][CtorName(T)] =
           [kind |-> "function", L |-> CtorType(T), fn |-> closure,
            required |-> 0, optional |-> 0, rest |-> FALSE],
       ![sc][PredName(T)] =
           [kind |-> "predicate", type |-> T, required |-> 1,
            optional |-> 0, rest |-> FALSE]]

MakeUsertype(sc, T) ==
    LET tag == cTypes[sc]
        let == LetId(sc, lets[sc])
        closure == [this |-> sc, tag |-> tag]
    IN  /\ regs < MaxTypeRegs
        /\ RegistryUpdate(sc, T, tag, let)
        /\ lambda' = [lambda EXCEPT ![CtorType(T)] = closure]
        /\ lname' = [lname EXCEPT ![CtorType(T)][sc] = CtorName(T)]
        /\ funcs' = TypeFunctions(sc, T, closure)
        /\ regs' = regs + 1
        /\ last' = [op |-> "make_usertype", inst |-> sc, type |-> T,
                    tag |-> tag, newlet |-> let,
                    oldtag |-> typeTag[T][sc], oldlet |-> typeLet[T][sc],
                    again |-> registered[T][sc] >= 1, error |-> NoErr]
        /\ UNCHANGED <<debugging, heap, opVars, freed, alive>>

\* an entry of the heap: the instance holding the value, the native type
\* it was boxed as, the operation that boxed it, and the boxed value
Boxed(sc, T, how, p) == [inst |-> sc, boxedAs |-> T, via |-> how, obj |-> p]

\* the host boxes a native object of a registered type T: from<T>(x)
BoxValue(sc, T) ==
    /\ Len(heap) < MaxHeap
    /\ registered[T][sc] >= 1
    /\ heap' = Append(heap, Boxed(sc, T, "from", from(T, sc, Len(heap))))
    /\ last' = NoOp
    /\ UNCHANGED <<debugging, typeTag, typeLet, cTypes, lets, lambda, lname,
                   funcs, regs, registered, opVars, gcVars>>

\* the interpreter calls make-<name>: the adapter invokes the closure its
\* table holds, which boxes a new T under the tag it captured, in the
\* instance it captured
Construct(sc, T) ==
    LET f == funcs[sc][CtorName(T)]
        c == lambda[f.L]
    IN  /\ Len(heap) < MaxHeap
        /\ f.kind = "function"
        /\ heap' = Append(heap,
                     Boxed(sc, T, "make",
                           make_c_object(T, c.this, c.tag, Len(heap))))
        /\ last' = NoOp
        /\ UNCHANGED <<debugging, typeTag, typeLet, cTypes, lets, lambda,
                       lname, funcs, regs, registered, opVars, gcVars>>

\* the function <name>? applied to p: from<bool>(is<T>(car(args)))
TypePredicate(T, sc, p) == from("bool", sc, is(T, sc, p))

\* the interpreter calls <name>? on a boxed value
AskPredicate(sc, T, i) ==
    /\ funcs[sc][PredName(T)].kind = "predicate"
    /\ last' = [op |-> "predicate", inst |-> sc, type |-> T,
                arg |-> heap[i].obj,
                result |-> TypePredicate(T, sc, heap[i].obj)]
    /\ UNCHANGED <<debugging, typeTag, typeLet, cTypes, lets, heap, lambda,
                   lname, funcs, regs, registered, opVars, gcVars>>

\* Scheme::find_method on a let: whether the let holds a method of the name
find_method(let, name) == <<let, name>> \in methods

\* the host defines a method in T's metadata let: Let::define
StoreMethod(sc, T, op) ==
    /\ regs < MaxTypeRegs
    /\ registered[T][sc] >= 1
    /\ methods' = methods \cup {<<get_type_let(T, sc), op>>}
    /\ regs' = regs + 1
    /\ last' = NoOp
    /\ UNCHANGED <<debugging, typeTag, typeLet, cTypes, lets, heap, lambda,
                   lname, funcs, registered, binding, substitured_ops,
                   owner, gcVars>>

InitTypes ==
    /\ InitEmpty
    /\ lambda = [L \in CtorTypes |-> None]
    /\ lname = [L \in CtorTypes |-> [sc \in Instances |-> None]]
    /\ funcs = [sc \in Instances |-> [n \in TypeFnNames |-> NoFn]]

RegisterType ==
    /\ AtTopLevel
    /\ \E sc \in Instances, T \in UserTypes : MakeUsertype(sc, T)

Box ==
    /\ AtTopLevel
    /\ \E sc \in Instances, T \in UserTypes : BoxValue(sc, T)

CallConstructor ==
    /\ AtTopLevel
    /\ \E sc \in Instances, T \in UserTypes : Construct(sc, T)

CallPredicate ==
    /\ AtTopLevel
    /\ \E sc \in Instances, T \in UserTypes :
            \E i \in DOMAIN heap : AskPredicate(sc, T, i)

DefineMethod ==
    /\ AtTopLevel
    /\ \E sc \in Instances, T \in UserTypes, op \in MethodOps :
            StoreMethod(sc, T, op)

NextTypes ==
    \/ RegisterType \/ Box \/ CallConstructor \/ CallPredicate
    \/ DefineMethod \/ Return

SpecTypes == InitTypes /\ [][NextTypes]_vars

(***************************************************************************)
(* Properties of the type registry.                                        *)
(***************************************************************************)
RegisteredOnce(T, sc) == registered[T][sc] = 1

\* the tag of a type registered once differs from the tag of every other
\* type registered in the same instance, and is the tag its registration
\* returned
TagsDistinct ==
    /\ \A sc \in Instances, T \in UserTypes :
          RegisteredOnce(T, sc) =>
             \A U \in UserTypes \ {T} :
                registered[U][sc] >= 1 =>
                   get_type_tag(U, sc) # get_type_tag(T, sc)
    /\ (last.op = "make_usertype" /\ ~last.again) =>
          get_type_tag(last.type, last.inst) = last.tag

\* no step changes the tag of a type that stays registered once
TagStable ==
    \A sc \in Instances, T \in UserTypes :
        (RegisteredOnce(T, sc) /\ registered'[T][sc] = 1) =>
            typeTag'[T][TypeTagKey(sc)] = get_type_tag(T, sc)

\* C8: for a type T registered exactly once in an instance, tag_of(T)
\* returns the same tag on every later lookup, whatever other types or
\* other instances register, and the tag differs from the tag of every
\* other type registered in the same instance.
C8_TagStableAndDistinct == [](TagsDistinct) /\ [][TagStable]_vars

\* TB is registered once in instance 1, next to TA, and once in instance 2
\* under another tag
C8_Witness ==
    /\ RegisteredOnce("TB", 1) /\ RegisteredOnce("TA", 1)
    /\ RegisteredOnce("TB", 2)
    /\ get_type_tag("TB", 1) # get_type_tag("TB", 2)

\* the values of the heap that instance sc boxed as T under tag t
BoxedUnder(T, sc, t) ==
    {i \in DOMAIN heap : /\ heap[i].inst = sc
                         /\ heap[i].boxedAs = T
                         /\ s7_c_object_type(heap[i].obj) = t}

\* C9: registering T again in the same instance raises no error and
\* overwrites the mapping: tag_of(T) and metadata_of(T) are the newly made
\* tag and let, and a value boxed under the earlier tag satisfies neither
\* is<T> nor the predicate T?.
C9_ReRegistrationOverwrites ==
    (last.op = "make_usertype" /\ last.again) =>
        /\ last.error = NoErr
        /\ get_type_tag(last.type, last.inst) = last.tag
        /\ get_type_let(last.type, last.inst) = last.newlet
        /\ last.tag # last.oldtag
        /\ last.newlet # last.oldlet
        /\ \A i \in BoxedUnder(last.type, last.inst, last.oldtag) :
              /\ ~is(last.type, last.inst, heap[i].obj)
              /\ TypePredicate(last.type, last.inst, heap[i].obj)
                    = s7_make_boolean(FALSE)

\* a type was registered again while the heap held a value boxed under its
\* earlier tag
C9_Witness ==
    /\ last.op = "make_usertype" /\ last.again
    /\ BoxedUnder(last.type, last.inst, last.oldtag) # {}

\* values of the built-in kinds
BuiltinValues ==
    {s7_unspecified, s7_make_boolean(TRUE), s7_make_integer(0),
     s7_make_real(0), s7_make_character(0),
     s7_make_string_with_length(<<1>>, 1)}

\* is<T> holds of exactly the native objects that carry T's registered tag,
\* and so of no value of a built-in kind
IsExactlyTagMatch ==
    \A sc \in Instances, T \in UserTypes :
        registered[T][sc] >= 1 =>
            /\ \A v \in BuiltinValues : ~is(T, sc, v)
            /\ \A i \in DOMAIN heap :
                  is(T, sc, heap[i].obj) <=>
                     /\ heap[i].obj.kind = "c-object"
                     /\ heap[i].obj.tag = typeTag[T][sc]

\* the values instance sc holds that were boxed as U by the operation how
BoxedAs(U, sc, how) ==
    {i \in DOMAIN heap : /\ heap[i].inst = sc
                         /\ heap[i].boxedAs = U
                         /\ heap[i].via \in how}

\* no value that instance sc boxed as U by one of the operations how
\* satisfies is<T> for a registered type T other than U
NeverIsOtherType(how) ==
    \A sc \in Instances, T \in UserTypes, U \in UserTypes :
        (T # U /\ registered[T][sc] >= 1 /\ registered[U][sc] >= 1) =>
            \A i \in BoxedAs(U, sc, how) : ~is(T, sc, heap[i].obj)

\* C13: for a registered type T, is<T>(v) holds exactly when v is a native
\* object whose tag is T's registered tag in that instance; a value of a
\* built-in kind, and a value boxed as another registered type U, never
\* satisfies is<T>.
C13_IsExactlyRegisteredType ==
    IsExactlyTagMatch /\ NeverIsOtherType({"from", "make"})

\* what holds of C13: the tag test, and the values from<U> boxed
IsExactlyBoxedByFrom == IsExactlyTagMatch /\ NeverIsOtherType({"from"})

\* every value boxed as T by one of the operations how carries T's tag and
\* T's let while T is registered once, all of them share one let, and a
\* method T's let holds is found on each of them
SharesContainer(how) ==
    \A sc \in Instances, T \in UserTypes :
        /\ registered[T][sc] = 1 =>
              \A i \in BoxedAs(T, sc, how) :
                 /\ s7_c_object_type(heap[i].obj) = get_type_tag(T, sc)
                 /\ heap[i].obj.let = get_type_let(T, sc)
        /\ \A i \in BoxedAs(T, sc, how), j \in BoxedAs(T, sc, how) :
              heap[i].obj.let = heap[j].obj.let
        /\ \A op \in MethodOps :
              find_method(get_type_let(T, sc), op) =>
                 \A i \in BoxedAs(T, sc, how) :
                    find_method(heap[i].obj.let, op)

\* C14: every value boxed as T (by from<T> or make_c_object) carries T's
\* registry tag and a reference to T's one metadata let: all boxed
\* instances of T of one interpreter share the let, so a method stored in
\* it after an instance was boxed is found on that instance.
C14_BoxedSharesContainer == SharesContainer({"from", "make"})

\* what holds of C14: the values from<T> boxed, of a type registered once
FromSharesContainer ==
    \A sc \in Instances, T \in UserTypes :
        registered[T][sc] = 1 =>
            \A i \in BoxedAs(T, sc, {"from"}) :
                /\ s7_c_object_type(heap[i].obj) = get_type_tag(T, sc)
                /\ heap[i].obj.let = get_type_let(T, sc)
                /\ \A op \in MethodOps :
                      find_method(get_type_let(T, sc), op) =>
                         find_method(heap[i].obj.let, op)


(***************************************************************************)
(* Operator substitution: make_usertype with a MethodOp stores the method  *)
(* in the type's let and, unless the Scheme object has the operator in     *)
(* substitured_ops, rebinds the operator's name to a variadic wrapper.     *)
(* The wrapper is a closure [this, old] of one lambda type per operator,   *)
(* so its adapter keeps it in the one LambdaTable slot of that type.       *)
(***************************************************************************)
MaxOpSteps == 3
MaxOpArgs == 2

\* the adapter type of the lambda make_method_op_function<op> returns
WrapperType(op) == IF op = "+" THEN "method_op_add" ELSE "method_op_sub"
WrapperTypes == {WrapperType(op) : op \in MethodOps}

\* a function object define_function made for the wrapper; nth counts the
\* substitutions of the operator in the instance
Wrapper(k) == [fn |-> "wrapper", nth |-> k]
Substitutions(b) == IF b = Builtin THEN 0 ELSE b.nth

s7_nil == Cell("nil", 0)
s7_c_object_let(p) == p.let

\* what the operator methods of the host return: the native operand, or a
\* number
MethodResults == {"object", "number"}
MethodResult(m, p) == IF m = "object" THEN p ELSE s7_make_integer(2)

Result(evs, res, err) == [events |-> evs, result |-> res, error |-> err]
StackOverflow == [type |-> "stack-overflow"]
Crash == [type |-> "fault"]

\* the runtime's own + and - on a list of arguments
RECURSIVE Accumulate(_, _, _)
Accumulate(op, acc, a) ==
    IF a = <<>> THEN acc
    ELSE Accumulate(op, IF op = "+" THEN acc + Head(a).v
                        ELSE acc - Head(a).v, Tail(a))

BuiltinOp(op, a) ==
    LET bad == {i \in DOMAIN a : ~s7_is_integer(a[i])} IN
    IF bad # {}
    THEN Result(<<>>, nullptr,
                s7_wrong_type_arg_error(op, Min(bad), a[Min(bad)], "a number"))
    ELSE IF a = <<>>
    THEN IF op = "+" THEN Result(<<>>, s7_make_integer(0), NoErr)
         ELSE Result(<<>>, nullptr, [type |-> "wrong-number-of-args"])
    ELSE IF Len(a) = 1
    THEN Result(<<>>, s7_make_integer(IF op = "+" THEN a[1].v
                                      ELSE 0 - a[1].v), NoErr)
    ELSE Result(<<>>, s7_make_integer(Accumulate(op, a[1].v, Tail(a))), NoErr)

\* Scheme::call(old, args...): s7_call of the function old on the list of
\* the arguments. A wrapper function runs the adapter of the wrapper's
\* lambda type, which invokes the closure the table holds now: on one
\* argument that closure returns it, on two operands neither of which is a
\* c-object it calls its old again, without end
call(old, op, a) ==
    IF old = Builtin THEN BuiltinOp(op, a)
    ELSE IF Len(a) = 1 THEN Result(<<>>, a[1], NoErr)
    ELSE Result(<<>>, nullptr, StackOverflow)

CalledOld(old, a) == [ev |-> "call", fn |-> old, args |-> a]
CalledMethod(let, op, a) == [ev |-> "method", let |-> let, name |-> op, args |-> a]
LookedUp(let, op) == [ev |-> "find_method", let |-> let, name |-> op]

\* the loop of the wrapper: for (auto arg : args) { ... } return res;
RECURSIVE FoldArgs(_, _, _, _, _, _)
FoldArgs(c, op, res, rest, evs, m) ==
    IF rest = <<>> THEN Result(evs, res, NoErr)
    ELSE
      LET arg == Head(rest) IN
      IF s7_is_c_object(res) \/ s7_is_c_object(arg)
      THEN LET p == IF s7_is_c_object(res) THEN res ELSE arg
               let == s7_c_object_let(p)
           IN  IF ~find_method(let, op)
               THEN Result(Append(evs, LookedUp(let, op)), nullptr,
                           s7_wrong_type_arg_error(op, 0, res,
                               <<"a c-object that defines ", "+">>))
               ELSE FoldArgs(c, op, MethodResult(m, p), Tail(rest),
                             evs \o <<LookedUp(let, op),
                                      CalledMethod(let, op, <<res, arg>>)>>,
                             m)
      ELSE LET d == call(c.old, op, <<res, arg>>) IN
           IF d.error # NoErr
           THEN Result(Append(evs, CalledOld(c.old, <<res, arg>>)), nullptr,
                       d.error)
           ELSE FoldArgs(c, op, d.result, Tail(rest),
                         Append(evs, CalledOld(c.old, <<res, arg>>)), m)

\* the body of the lambda make_method_op_function<op> returns, run with
\* the closure c on args. Both tests of the argument count compare with 0,
\* so the branch for one argument is never taken
method_op_function(c, op, args, m) ==
    IF Len(args) = 0
    THEN LET d == call(c.old, op, <<s7_nil>>) IN
         Result(<<CalledOld(c.old, <<s7_nil>>)>>, d.result, d.error)
    ELSE FoldArgs(c, op, Head(args), Tail(args), <<>>, m)

\* the adapter of the wrapper, called by instance sc: it invokes the
\* closure of the table. The closure reaches the runtime through this->sc:
\* a null pointer once the Scheme object was moved from (the runtime
\* dereferences it), another instance's pointer when the closure was made
\* for that instance (the runtime then works on cells of a foreign heap)
call_wrapper(sc, op, args, m) ==
    LET c == lambda[WrapperType(op)] IN
    IF owner[c.this] = NoInstance THEN {Result(<<>>, nullptr, Crash)}
    ELSE IF owner[c.this] # sc
    THEN {method_op_function(c, op, args, m), Result(<<>>, nullptr, Crash)}
    ELSE {method_op_function(c, op, args, m)}

\* make_usertype<T>(name, constructors, op, fn) on the Scheme object s: the
\* type is registered with a fresh let, then usertype_add_method_op defines
\* fn as the method op of the let and substitutes the operator
MakeUsertypeWithMethod(s, T, op) ==
    LET sc == owner[s]
        tag == cTypes[sc]
        let == LetId(sc, lets[sc])
        closure == [this |-> sc, tag |-> tag]
        substitute == op \notin substitured_ops[s]
        old == binding[sc][op]
    IN  /\ regs < MaxOpSteps
        /\ sc # NoInstance
        /\ RegistryUpdate(sc, T, tag, let)
        /\ funcs' = TypeFunctions(sc, T, closure)
        /\ methods' = methods \cup {<<let, op>>}
        /\ lambda' = [lambda EXCEPT
                        ![CtorType(T)] = closure,
                        ![WrapperType(op)] =
                            IF substitute THEN [this |-> s, old |-> old]
                            ELSE @]
        /\ lname' = [lname EXCEPT
                       ![CtorType(T)][sc] = CtorName(T),
                       ![WrapperType(op)][sc] = IF substitute THEN op ELSE @]
        /\ binding' = IF substitute
                      THEN [binding EXCEPT
                              ![sc][op] = Wrapper(Substitutions(old) + 1)]
                      ELSE binding
        /\ substitured_ops' = [substitured_ops EXCEPT ![s] = @ \cup {op}]
        /\ regs' = regs + 1
        /\ last' = [op |-> "make_usertype", inst |-> sc, type |-> T,
                    tag |-> tag, newlet |-> let, method |-> op,
                    substituted |-> substitute, error |-> NoErr]
        /\ UNCHANGED <<debugging, heap, owner, freed, alive>>

\* Scheme::operator=(Scheme &&other) on dst with other = src (the move
\* constructor calls it on the new object): only sc is carried over. The
\* host moves into objects that hold no interpreter
MoveScheme(src, dst) ==
    /\ regs < MaxOpSteps
    /\ owner[src] # NoInstance
    /\ owner[dst] = NoInstance
    /\ owner' = [owner EXCEPT ![dst] = owner[src], ![src] = NoInstance]
    /\ regs' = regs + 1
    /\ last' = NoOp
    /\ UNCHANGED <<debugging, typeTag, typeLet, cTypes, lets, heap, lambda,
                   lname, funcs, registered, methods, binding,
                   substitured_ops, gcVars>>

\* the interpreter sc applies the function bound to the operator's name
CallOperator(sc, op, args, m) ==
    LET b == binding[sc][op] IN
    /\ \E out \in (IF b = Builtin THEN {BuiltinOp(op, args)}
                   ELSE call_wrapper(sc, op, args, m)) :
           last' = [op |-> "call", inst |-> sc, callee |-> op, bound |-> b,
                    closure |-> IF b = Builtin THEN None
                                ELSE lambda[WrapperType(op)],
                    arglist |-> args, out |-> out]
    /\ UNCHANGED <<debugging, typeTag, typeLet, cTypes, lets, heap, lambda,
                   lname, funcs, regs, registered, opVars, gcVars>>

\* the operands of a call: a number and a boxed native object
OperatorArgValues(sc) == {s7_make_integer(3), from("TA", sc, 0)}

\* the state after the host registered TA, then TB, in every instance
\* (instance 2 last), without operator methods
InitOperators ==
    /\ InitRegistered
    /\ lambda = [L \in CtorTypes \cup WrapperTypes |->
                   IF L = CtorType("TA") THEN [this |-> 2, tag |-> 0]
                   ELSE IF L = CtorType("TB") THEN [this |-> 2, tag |-> 1]
                   ELSE None]
    /\ lname = [L \in CtorTypes \cup WrapperTypes |->
                  [sc \in Instances |->
                     IF L = CtorType("TA") THEN CtorName("TA")
                     ELSE IF L = CtorType("TB") THEN CtorName("TB")
                     ELSE None]]
    /\ funcs = [sc \in Instances |->
                  [n \in TypeFnNames |->
                     IF n = CtorName("TA")
                     THEN [kind |-> "function", L |-> CtorType("TA"),
                           fn |-> [this |-> sc, tag |-> 0], required |-> 0,
                           optional |-> 0, rest |-> FALSE]
                     ELSE IF n = CtorName("TB")
                     THEN [kind |-> "function", L |-> CtorType("TB"),
                           fn |-> [this |-> sc, tag |-> 1], required |-> 0,
                           optional |-> 0, rest |-> FALSE]
                     ELSE [kind |-> "predicate",
                           type |-> IF n = PredName("TA") THEN "TA" ELSE "TB",
                           required |-> 1, optional |-> 0, rest |-> FALSE]]]

RegisterMethodOp ==
    /\ AtTopLevel
    /\ \E s \in Schemes, T \in UserTypes, op \in MethodOps :
            MakeUsertypeWithMethod(s, T, op)

Move ==
    /\ AtTopLevel
    /\ \E src \in Schemes, dst \in Schemes : MoveScheme(src, dst)

ApplyOperator ==
    /\ AtTopLevel
    /\ \E sc \in Instances, op \in MethodOps, m \in MethodResults :
            \E args \in SeqsUpTo(OperatorArgValues(sc), MaxOpArgs) :
                CallOperator(sc, op, args, m)

NextOps == RegisterMethodOp \/ Move \/ ApplyOperator \/ Return

SpecOps == InitOperators /\ [][NextOps]_vars


(***************************************************************************)
(* Properties of the substituted operators.                                *)
(***************************************************************************)
\* the last operation was a call of an operator whose name is bound to the
\* wrapper
WrapperCalled == last.op = "call" /\ last.bound # Builtin

NativeOperands == {i \in DOMAIN last.arglist : s7_is_c_object(last.arglist[i])}

\* the pairwise steps the wrapper performed: the calls of methods and of
\* the function it holds as the original operator
Steps == SelectSeq(last.out.events, LAMBDA e : e.ev \in {"call", "method"})
Lookups == SelectSeq(last.out.events, LAMBDA e : e.ev = "find_method")

\* step k is the one the accumulator acc and the next operand ask for
StepAsRequired(k) ==
    LET st == Steps[k]
        acc == st.args[1]
        next == st.args[2]
    IN  /\ next = last.arglist[k + 1]
        /\ k = 1 => acc = last.arglist[1]
        /\ IF s7_is_c_object(acc) \/ s7_is_c_object(next)
           THEN /\ st.ev = "method"
                /\ st.name = last.callee
                /\ st.let = s7_c_object_let(IF s7_is_c_object(acc) THEN acc
                                            ELSE next)
           ELSE /\ st.ev = "call"
                /\ st.fn = Builtin

FoldedLeftToRight ==
    /\ last.out.error = NoErr
    /\ Len(Steps) = Len(last.arglist) - 1
    /\ \A k \in DOMAIN Steps : StepAsRequired(k)
    /\ Len(Lookups) = Cardinality({k \in DOMAIN Steps : Steps[k].ev = "method"})

\* every native operand of the call has the operator's method in its let
OperandsHaveMethod ==
    \A i \in NativeOperands :
        find_method(s7_c_object_let(last.arglist[i]), last.callee)

\* C15: the substituted operator folds n >= 2 operands left to right in
\* exactly n-1 pairwise steps: a step with a native operand calls the
\* method found on that operand's let once with (accumulator, next operand)
\* and not the built-in; a step without a native operand calls the
\* original built-in once and looks up no method
C15_FoldsLeftToRight ==
    (WrapperCalled /\ Len(last.arglist) >= 2 /\ OperandsHaveMethod)
        => FoldedLeftToRight

\* the closure the adapter ran was made by the Scheme object that holds the
\* calling instance, with the runtime's own operator as old
ClosureIsOwn ==
    /\ owner[last.closure.this] = last.inst
    /\ last.closure.old = Builtin

\* the fold is as required when the wrapper ran the calling instance's own
\* closure
FoldsLeftToRightWithOwnClosure ==
    (WrapperCalled /\ Len(last.arglist) >= 2 /\ OperandsHaveMethod
        /\ ClosureIsOwn) => FoldedLeftToRight

SameAsBuiltin ==
    LET b == BuiltinOp(last.callee, last.arglist) IN
    /\ last.out.result = b.result
    /\ last.out.error = b.error

\* C16: after substitution a call without a native operand returns what
\* the original built-in returns on the same arguments, for every number of
\* arguments, zero and one included
C16_NoNativeOperandSameAsBuiltin ==
    (WrapperCalled /\ NativeOperands = {}) => SameAsBuiltin

\* with two or more operands and the instance's own closure the result is
\* the built-in's
TwoOrMoreSameAsBuiltin ==
    (WrapperCalled /\ NativeOperands = {} /\ Len(last.arglist) >= 2
        /\ ClosureIsOwn) => SameAsBuiltin

\* C17: for each operator of each instance the built-in binding was
\* replaced by the wrapper at most once, and the original operator the
\* installed wrapper delegates to is the runtime's built-in
C17_SubstitutedOnceOverBuiltin ==
    \A sc \in Instances, op \in MethodOps :
        /\ Substitutions(binding[sc][op]) <= 1
        /\ binding[sc][op] # Builtin
              => lambda[WrapperType(op)].old = Builtin

\* a Scheme object substitutes an operator at most once
SubstitutesOncePerSchemeObject ==
    [][\A s \in Schemes, op \in MethodOps :
          (op \in substitured_ops[s] /\ owner[s] # NoInstance
              /\ owner'[s] = owner[s])
          => binding'[owner[s]][op] = binding[owner[s]][op]]_vars

\* the wrapper raised its error for a missing method: the last thing it
\* did was a lookup
MissingMethod ==
    /\ WrapperCalled
    /\ last.out.error # NoErr
    /\ last.out.events # <<>>
    /\ last.out.events[Len(last.out.events)].ev = "find_method"

\* C18: when a fold step involves a native operand whose let has no method
\* for the operator, the wrapper raises a wrong-type error whose expected
\* text names the operator and whose offending value is that native
\* operand, and the step calls neither a method nor the built-in
C18_MissingMethodError ==
    MissingMethod =>
        LET e == last.out.error
            lookup == last.out.events[Len(last.out.events)]
        IN  /\ e.type = "wrong-type-arg"
            /\ e.expected = <<"a c-object that defines ", last.callee>>
            /\ s7_is_c_object(e.arg)
            /\ s7_c_object_let(e.arg) = lookup.let
            /\ Len(Steps) = Len(Lookups) - 1

\* for + with a native accumulator the error is the one required
MissingAddMethodOfAccumulator ==
    (MissingMethod /\ last.callee = "+"
        /\ s7_is_c_object(last.out.error.arg))
    => /\ last.out.error.type = "wrong-type-arg"
       /\ last.out.error.expected = <<"a c-object that defines ", "+">>
       /\ s7_c_object_let(last.out.error.arg) =
              last.out.events[Len(last.out.events)].let


(***************************************************************************)
(* The hooks make_usertype<T> installs for a c-type: is_equal when T has   *)
(* ==, ref and set when T has one operator[].  They are captureless        *)
(* lambdas handed to the runtime as function pointers.  The native types   *)
(* here have == and an operator[] from IndexType to ValueType &.           *)
(***************************************************************************)
MaxHookSteps == 3

IndexType == "short"
ValueType == "bool"

\* new T(): every element holds the default value
NewObject == [i \in NativeValues(IndexType) |-> FALSE]

\* the native object a c-object's storage pointer refers to
s7_c_object_value(p) == heap[Deref(p) + 1].native

\* the type whose hooks the c-type of a tag got from make_usertype<T>
HookType(sc, tag) == CHOOSE T \in UserTypes : get_type_tag(T, sc) = tag

HookResult(res, err, touched) ==
    [result |-> res, error |-> err, native |-> touched]

AnyCObject(b, tag) == s7_is_c_object(b)

\* the hook's test of b: s7_is_c_object(b) and s7_c_object_type(b) == tag
TagMatches(b, tag) == s7_is_c_object(b) /\ s7_c_object_type(b) = tag

\* the is_equal hook of T, applied to (a, b); native tells whether T's ==
\* was called
is_equal(T, sc, a, b) ==
    IF a = b THEN HookResult(s7_make_boolean(TRUE), NoErr, FALSE)
    ELSE IF ~TagMatches(b, get_type_tag(T, sc))
    THEN HookResult(s7_make_boolean(FALSE), NoErr, FALSE)
    ELSE HookResult(s7_make_boolean(s7_c_object_value(a) = s7_c_object_value(b)),
                    NoErr, TRUE)

Unchecked(T, sc, p) == TRUE

\* the hooks' test of an argument in a validation build: scheme.is<T>(p)
Checked(T, sc, p) == is(T, sc, p)

\* the ref hook of T, applied to (obj, arg); native tells which element
\* was read
ref(T, sc, obj, arg) ==
    IF debugging /\ ~Checked(IndexType, sc, arg)
    THEN {HookResult(nullptr,
                     s7_wrong_type_arg_error("T ref", 1, arg,
                                             type_to_string(IndexType, sc)),
                     None)}
    ELSE {IF i.ok
          THEN HookResult(from(ValueType, sc, s7_c_object_value(obj)[i.val]),
                          NoErr, i.val)
          ELSE HookResult(nullptr, [type |-> "fault"], None) :
          i \in to(IndexType, sc, arg)}

\* the set hook of T, applied to (obj, index, value): its result and the
\* native object afterwards
set(T, sc, obj, index, value) ==
    LET o == s7_c_object_value(obj) IN
    IF debugging /\ ~Checked(IndexType, sc, index)
    THEN {[out |-> HookResult(nullptr,
                      s7_wrong_type_arg_error("T ref", 1, index,
                                              type_to_string(IndexType, sc)),
                      None),
           object |-> o]}
    ELSE IF debugging /\ ~Checked(ValueType, sc, value)
    THEN {[out |-> HookResult(nullptr,
                      s7_wrong_type_arg_error("T ref", 2, value,
                                              type_to_string(ValueType, sc)),
                      None),
           object |-> o]}
    ELSE {IF i.ok /\ v.ok
          THEN [out |-> HookResult(Cell("undefined", 0), NoErr, i.val),
                object |-> [o EXCEPT ![i.val] = v.val]]
          ELSE [out |-> HookResult(nullptr, [type |-> "fault"], None),
                object |-> o] :
          i \in to(IndexType, sc, index), v \in to(ValueType, sc, value)}

\* the host boxes a new native object: from<T>(T())
BoxObject(sc, T) ==
    /\ Len(heap) < MaxHeap
    /\ regs < MaxHookSteps
    /\ heap' = Append(heap, [inst |-> sc, boxedAs |-> T, via |-> "from",
                             obj |-> from(T, sc, Len(heap)),
                             native |-> NewObject])
    /\ regs' = regs + 1
    /\ last' = NoOp
    /\ UNCHANGED <<debugging, typeTag, typeLet, cTypes, lets, lambda, lname,
                   funcs, registered, opVars, gcVars>>

HookCall(sc, hook, T, args, out, before) ==
    [op |-> "call", inst |-> sc, callee |-> hook, type |-> T,
     arglist |-> args, out |-> out, before |-> before]

\* the runtime compares the c-object a with b: the is_equal hook of a's
\* c-type
CallEqual(sc, i, b) ==
    LET a == heap[i].obj
        T == HookType(sc, s7_c_object_type(a))
    IN  /\ last' = HookCall(sc, "equal", T, <<a, b>>, is_equal(T, sc, a, b),
                            heap[i].native)
        /\ UNCHANGED <<debugging, typeTag, typeLet, cTypes, lets, heap,
                       lambda, lname, funcs, regs, registered, opVars, gcVars>>

\* the runtime indexes the c-object: the ref hook of its c-type
CallRef(sc, i, arg) ==
    LET obj == heap[i].obj
        T == HookType(sc, s7_c_object_type(obj))
    IN  /\ \E out \in ref(T, sc, obj, arg) :
               last' = HookCall(sc, "ref", T, <<obj, arg>>, out,
                                heap[i].native)
        /\ UNCHANGED <<debugging, typeTag, typeLet, cTypes, lets, heap,
                       lambda, lname, funcs, regs, registered, opVars, gcVars>>

\* the runtime assigns to an element of the c-object: the set hook of its
\* c-type
CallSet(sc, i, index, value) ==
    LET obj == heap[i].obj
        T == HookType(sc, s7_c_object_type(obj))
    IN  /\ regs < MaxHookSteps
        /\ \E r \in set(T, sc, obj, index, value) :
               /\ last' = HookCall(sc, "set", T, <<obj, index, value>>,
                                   r.out, heap[i].native)
               /\ heap' = [heap EXCEPT ![i].native = r.object]
        /\ regs' = regs + 1
        /\ UNCHANGED <<debugging, typeTag, typeLet, cTypes, lets, lambda,
                       lname, funcs, registered, opVars, gcVars>>

\* T::size() of the native types here: the number of elements that are set
size(o) == Cardinality({i \in DOMAIN o : o[i]})

\* the length hook of T, applied to obj: it casts obj itself, the runtime's
\* cell, to T * (not the cell's storage pointer) and calls size() through
\* it, which reads the bytes of the cell as a T: any size, or a fault
length(T, sc, obj) ==
    {HookResult(s7_make_integer(n), NoErr, None) :
        n \in 0 .. Cardinality(NativeValues(IndexType))}
    \cup {HookResult(nullptr, [type |-> "fault"], None)}

\* the runtime takes the length of the c-object: the length hook of its
\* c-type
CallLength(sc, i) ==
    LET obj == heap[i].obj
        T == HookType(sc, s7_c_object_type(obj))
    IN  /\ \E out \in length(T, sc, obj) :
               last' = HookCall(sc, "length", T, <<obj>>, out,
                                heap[i].native)
        /\ UNCHANGED <<debugging, typeTag, typeLet, cTypes, lets, heap,
                       lambda, lname, funcs, regs, registered, opVars, gcVars>>

\* the values the interpreter passes as index and as element
IndexArgValues ==
    {s7_make_integer(1), s7_make_integer(Pow2(Width(IndexType)) + 1),
     s7_make_boolean(TRUE)}
ElementArgValues ==
    {s7_make_boolean(TRUE), s7_make_boolean(FALSE), s7_make_integer(1)}

\* the c-objects of an instance
ObjectsOf(sc) == {i \in DOMAIN heap : heap[i].inst = sc}

InitHooks ==
    /\ InitRegistered
    /\ lambda = [L \in CtorTypes |-> None]
    /\ lname = [L \in CtorTypes |-> [sc \in Instances |-> None]]
    /\ funcs = [sc \in Instances |-> [n \in TypeFnNames |-> NoFn]]

NewNativeObject ==
    /\ AtTopLevel
    /\ \E sc \in Instances, T \in UserTypes : BoxObject(sc, T)

Equal ==
    /\ AtTopLevel
    /\ \E sc \in Instances :
         \E i \in ObjectsOf(sc) :
            \E b \in {heap[j].obj : j \in ObjectsOf(sc)}
                        \cup {s7_make_integer(1)} :
                CallEqual(sc, i, b)

Ref ==
    /\ AtTopLevel
    /\ \E sc \in Instances :
         \E i \in ObjectsOf(sc), arg \in IndexArgValues : CallRef(sc, i, arg)

Set ==
    /\ AtTopLevel
    /\ \E sc \in Instances :
         \E i \in ObjectsOf(sc), index \in IndexArgValues,
            value \in ElementArgValues :
                CallSet(sc, i, index, value)

Length ==
    /\ AtTopLevel
    /\ \E sc \in Instances : \E i \in ObjectsOf(sc) : CallLength(sc, i)

NextHooks == NewNativeObject \/ Equal \/ Ref \/ Set \/ Length \/ Return

SpecHooks == InitHooks /\ [][NextHooks]_vars


(***************************************************************************)
(* Properties of the hooks.                                                *)
(***************************************************************************)
HookCalled(hook) == last.op = "call" /\ last.callee = hook

\* the heap's entry of a c-object
EntryOf(p) == CHOOSE k \in DOMAIN heap : heap[k].obj = p
IsBoxed(p, T) == \E k \in DOMAIN heap : heap[k].obj = p /\ heap[k].boxedAs = T

\* C19: the equality hook of T applied to (a, b) with a a boxed T returns
\* true when a and b are the identical value; otherwise false, without
\* calling T's ==, when b is not a native object carrying T's tag;
\* otherwise the result of T's == on the two stored objects
C19_EqualityHook ==
    (HookCalled("equal") /\ IsBoxed(last.arglist[1], last.type)) =>
        LET a == last.arglist[1]
            b == last.arglist[2]
            tag == typeTag[last.type][last.inst]
        IN  IF a = b THEN last.out.result = s7_make_boolean(TRUE)
            ELSE IF b.kind # "c-object" \/ b.tag # tag
            THEN /\ last.out.result = s7_make_boolean(FALSE)
                 /\ ~last.out.native
            ELSE /\ last.out.native
                 /\ last.out.result =
                      s7_make_boolean(heap[EntryOf(a)].native =
                                      heap[EntryOf(b)].native)

\* two distinct boxed objects of one type were compared by T's ==, and
\* differ
C19_Witness ==
    /\ HookCalled("equal")
    /\ IsBoxed(last.arglist[1], last.type)
    /\ last.arglist[1] # last.arglist[2]
    /\ last.out.native
    /\ last.out.result = s7_make_boolean(FALSE)

\* the native object the last hook call worked on, now
ObjectNow == heap[EntryOf(last.arglist[1])].native

WrongTypeAt(n) ==
    /\ last.out.error.type = "wrong-type-arg"
    /\ last.out.error.pos = n
    /\ last.out.error.arg = last.arglist[n + 1]
    /\ last.out.native = None
    /\ ObjectNow = last.before

\* C20: in a validation build the ref hook raises a wrong-type error
\* without reading an element when the index fails is<IndexType>; the set
\* hook raises one naming position 1 when the index fails is<IndexType> and
\* position 2 when the value fails is<ValueType>, the native object
\* unmodified; when both checks pass, set stores to<ValueType>(value) at
\* to<IndexType>(index) and a following ref at that index returns it
C20_IndexedAccessChecked ==
    /\ (debugging /\ HookCalled("ref")
          /\ ~s7_is_integer(last.arglist[2])) => WrongTypeAt(1)
    /\ (debugging /\ HookCalled("set")) =>
          LET obj == last.arglist[1]
              index == last.arglist[2]
              value == last.arglist[3]
          IN  IF ~s7_is_integer(index) THEN WrongTypeAt(1)
              ELSE IF ~s7_is_boolean(value) THEN WrongTypeAt(2)
              ELSE LET i == WrapTo(Width(IndexType), index.v) IN
                   /\ last.out.error = NoErr
                   /\ ObjectNow = [last.before EXCEPT ![i] = value.v]
                   /\ \A r \in ref(last.type, last.inst, obj, index) :
                          /\ r.error = NoErr
                          /\ r.result = s7_make_boolean(value.v)

\* a validation build stored an element at an index that was narrowed
C20_Witness ==
    /\ debugging
    /\ HookCalled("set")
    /\ last.out.error = NoErr
    /\ last.arglist[2].v # WrapTo(Width(IndexType), last.arglist[2].v)
    /\ ObjectNow # last.before

\* a validation build refused a value of the wrong type at position 2
SetRefusedValue ==
    /\ debugging
    /\ HookCalled("set")
    /\ last.out.error # NoErr
    /\ last.out.error.pos = 2


\* C21: the length hook returns size() of the native object stored in the
\* boxed value, the object the ref, set and equality hooks read through
\* the value's storage pointer
C21_LengthOfStoredObject ==
    HookCalled("length") =>
        /\ last.out.error = NoErr
        /\ last.out.result = s7_make_integer(size(ObjectNow))


(***************************************************************************)
(* Collector hooks.  make_usertype<T> installs gc_free (delete the stored  *)
(* T) and gc_mark (mark the object's let) for the c-type it makes; the     *)
(* overload taking an Op and a host function then calls usertype_add_op,   *)
(* which hands the runtime the call adapter of the host function as the    *)
(* hook of that c-type.  The collector calls gc_mark and gc_free with the  *)
(* object itself, not with a list of arguments.                            *)
(***************************************************************************)
MaxGcSteps == 3

\* Op::GcMark and Op::GcFree
GcOps == {"gc_mark", "gc_free"}
\* the arities of the host functions
HookArities == {1, 2}

\* the adapter types of the functions usertype_add_op adapts: the lambda
\* [fn2] it wraps a unary GcMark function in, and the host function itself
HookAdapterType(op, arity) ==
    IF op = "gc_mark" /\ arity = 1 THEN "gc_mark_fn2" ELSE "host_hook"
HookAdapterTypes == {HookAdapterType(op, n) : op \in GcOps, n \in HookArities}

\* the hook usertype_add_op stores: "wrapped" is the adapter of the lambda
\* that marks the let and then calls the host function, "host" the adapter
\* of the host function alone
usertype_add_op(hooks, op, arity) ==
    [hooks EXCEPT ![op] = IF op = "gc_mark" /\ arity = 1 THEN "wrapped"
                          ELSE "host"]

\* make_usertype<T>(name, constructors, op, fn) in instance sc
MakeUsertypeWithOp(sc, T, op, arity) ==
    LET tag == cTypes[sc]
        let == LetId(sc, lets[sc])
        closure == [this |-> sc, tag |-> tag]
        L == HookAdapterType(op, arity)
    IN  /\ regs < MaxGcSteps
        /\ cTypes' = [cTypes EXCEPT ![sc] = tag + 1]
        /\ lets' = [lets EXCEPT ![sc] = @ + 1]
        /\ typeTag' = [typeTag EXCEPT
                         ![T] = insert_or_assign(@, TypeTagKey(sc), tag)]
        /\ typeLet' = [typeLet EXCEPT
                         ![T] = insert_or_assign(@, TypeTagKey(sc), let)]
        /\ registered' = [registered EXCEPT ![T][sc] = @ + 1]
        /\ cTypeHooks' = [cTypeHooks EXCEPT
                            ![sc] = Append(@, usertype_add_op(DefaultHooks(T),
                                                              op, arity))]
        /\ funcs' = TypeFunctions(sc, T, closure)
        /\ lambda' = [lambda EXCEPT ![CtorType(T)] = closure,
                                    ![L] = [host |-> op, arity |-> arity]]
        /\ lname' = [lname EXCEPT ![CtorType(T)][sc] = CtorName(T),
                                  ![L][sc] = <<TypeNameOf(T), "-op">>]
        /\ regs' = regs + 1
        /\ last' = NoOp
        /\ UNCHANGED <<debugging, heap, opVars, freed, alive>>

\* the host boxes a new T, which the interpreter holds: from<T>
BoxCollected(sc, T) ==
    /\ Len(heap) < MaxHeap
    /\ regs < MaxGcSteps
    /\ heap' = Append(heap, [inst |-> sc, boxedAs |-> T, via |-> "from",
                             obj |-> from(T, sc, Len(heap)),
                             reachable |-> TRUE, collected |-> FALSE,
                             deleted |-> 0])
    /\ regs' = regs + 1
    /\ last' = NoOp
    /\ UNCHANGED <<debugging, typeTag, typeLet, cTypes, lets, lambda, lname,
                   funcs, registered, opVars, gcVars>>

\* the interpreter drops its last reference to the boxed value
Unreference(i) ==
    /\ heap[i].reachable
    /\ heap' = [heap EXCEPT ![i].reachable = FALSE]
    /\ last' = NoOp
    /\ UNCHANGED <<debugging, typeTag, typeLet, cTypes, lets, lambda, lname,
                   funcs, regs, registered, opVars, gcVars>>

\* the hooks of the c-type of a boxed value
HooksOf(e) == cTypeHooks[e.inst][s7_c_object_type(e.obj) + 1]

\* what a call of the gc_mark hook does to the object's let.  The default
\* hook marks it.  A hook stored by usertype_add_op is a call adapter: it
\* takes the object it is called with for the list of its arguments and
\* reads a car of it, which is undefined; the host function alone does not
\* mark the let
gc_mark(hook) ==
    IF hook = "default" THEN {[letMarked |-> TRUE, fault |-> FALSE]}
    ELSE {[letMarked |-> TRUE, fault |-> FALSE],
          [letMarked |-> FALSE, fault |-> FALSE],
          [letMarked |-> FALSE, fault |-> TRUE]}

\* what a call of the gc_free hook does: the number of times it deletes
\* the stored T.  The default hook deletes it; a hook stored by
\* usertype_add_op replaces the default one and is a call adapter, called
\* with the object in place of the list of its arguments
gc_free(hook) ==
    IF hook = "default" THEN {[deletes |-> 1, fault |-> FALSE]}
    ELSE {[deletes |-> 1, fault |-> FALSE],
          [deletes |-> 0, fault |-> FALSE],
          [deletes |-> 0, fault |-> TRUE]}

\* the collector marks a reachable boxed value: it calls the gc_mark hook
\* of its c-type
MarkObject(i) ==
    /\ heap[i].reachable
    /\ \E out \in gc_mark(HooksOf(heap[i]).gc_mark) :
           last' = [op |-> "call", inst |-> heap[i].inst,
                    callee |-> "gc_mark", hook |-> HooksOf(heap[i]).gc_mark,
                    arglist |-> <<heap[i].obj>>, out |-> out]
    /\ UNCHANGED <<debugging, typeTag, typeLet, cTypes, lets, heap, lambda,
                   lname, funcs, regs, registered, opVars, gcVars>>

\* the collector frees an unreachable boxed value: it calls the gc_free
\* hook of its c-type, once
SweepObject(i) ==
    /\ ~heap[i].reachable
    /\ ~heap[i].collected
    /\ \E out \in gc_free(HooksOf(heap[i]).gc_free) :
           /\ heap' = [heap EXCEPT ![i].collected = TRUE,
                                   ![i].deleted = @ + out.deletes]
           /\ last' = [op |-> "call", inst |-> heap[i].inst,
                       callee |-> "gc_free",
                       hook |-> HooksOf(heap[i]).gc_free,
                       arglist |-> <<heap[i].obj>>, out |-> out]
    /\ UNCHANGED <<debugging, typeTag, typeLet, cTypes, lets, lambda, lname,
                   funcs, regs, registered, opVars, gcVars>>

InitGc ==
    /\ InitRegistered
    /\ lambda = [L \in CtorTypes \cup HookAdapterTypes |->
                   IF L = CtorType("TA") THEN [this |-> 2, tag |-> 0]
                   ELSE IF L = CtorType("TB") THEN [this |-> 2, tag |-> 1]
                   ELSE None]
    /\ lname = [L \in CtorTypes \cup HookAdapterTypes |->
                  [sc \in Instances |->
                     IF L = CtorType("TA") THEN CtorName("TA")
                     ELSE IF L = CtorType("TB") THEN CtorName("TB")
                     ELSE None]]
    /\ funcs = [sc \in Instances |->
                  [n \in TypeFnNames |->
                     IF n = CtorName("TA")
                     THEN [kind |-> "function", L |-> CtorType("TA"),
                           fn |-> [this |-> sc, tag |-> 0], required |-> 0,
                           optional |-> 0, rest |-> FALSE]
                     ELSE IF n = CtorName("TB")
                     THEN [kind |-> "function", L |-> CtorType("TB"),
                           fn |-> [this |-> sc, tag |-> 1], required |-> 0,
                           optional |-> 0, rest |-> FALSE]
                     ELSE [kind |-> "predicate",
                           type |-> IF n = PredName("TA") THEN "TA" ELSE "TB",
                           required |-> 1, optional |-> 0, rest |-> FALSE]]]

RegisterWithOp ==
    /\ AtTopLevel
    /\ \E sc \in Instances, T \in UserTypes, op \in GcOps,
          arity \in HookArities : MakeUsertypeWithOp(sc, T, op, arity)

BoxForCollector ==
    /\ AtTopLevel
    /\ \E sc \in Instances, T \in UserTypes : BoxCollected(sc, T)

DropReference ==
    /\ AtTopLevel
    /\ \E i \in DOMAIN heap : Unreference(i)

CollectorMarks ==
    /\ AtTopLevel
    /\ \E i \in DOMAIN heap : MarkObject(i)

CollectorSweeps ==
    /\ AtTopLevel
    /\ \E i \in DOMAIN heap : SweepObject(i)

NextGc ==
    \/ RegisterWithOp \/ BoxForCollector \/ DropReference
    \/ CollectorMarks \/ CollectorSweeps \/ Return

SpecGc == InitGc /\ [][NextGc]_vars

\* C22: after any sequence of hook registrations, the mark hook in effect
\* marks the object's metadata container each time the collector marks a
\* boxed instance
C22_MarkHookMarksLet ==
    HookCalled("gc_mark") => (last.out.letMarked /\ ~last.out.fault)

\* the hook make_usertype installs marks the let
DefaultMarkHookMarksLet ==
    (HookCalled("gc_mark") /\ last.hook = "default")
        => (last.out.letMarked /\ ~last.out.fault)

\* C25: the T created at boxing is deleted exactly once, when the
\* collector finds the boxed value unreachable, and never while it is
\* reachable, for every registered type, those registered with a host's
\* Op::GcFree included
C25_DeletedExactlyOnce ==
    \A i \in DOMAIN heap :
        /\ heap[i].collected => heap[i].deleted = 1
        /\ ~heap[i].collected => heap[i].deleted = 0
        /\ heap[i].reachable => ~heap[i].collected

\* with the hook make_usertype installs, the T is deleted exactly once
DefaultFreeHookDeletesOnce ==
    \A i \in DOMAIN heap :
        HooksOf(heap[i]).gc_free = "default" =>
            /\ heap[i].collected => heap[i].deleted = 1
            /\ ~heap[i].collected => heap[i].deleted = 0
            /\ heap[i].reachable => ~heap[i].collected


(***************************************************************************)
(* The caller name of the call adapter's errors.                           *)
(***************************************************************************)
RaisedWrongType ==
    /\ last.op = "call"
    /\ last.callee \in Names
    /\ last.out.error.type = "wrong-type-arg"

\* C28: a wrong-type error raised by a call adapter names as caller the
\* name under which the invoked function was registered, also after a
\* callable of the same adapter type was registered under a second name
C28_ErrorNamesCalledFunction ==
    RaisedWrongType => last.out.error.caller = last.callee

\* the error names the name the instance registered last for the adapter
\* type of the function called
ErrorNamesLastRegisteredOfType ==
    RaisedWrongType =>
        last.out.error.caller = lname[last.bound.L][last.inst]

(***************************************************************************)
(* Single callables, fixed-arity and variadic: the cursor VarArgs<T> and   *)
(* the entry points define_function and make_function.                     *)
(***************************************************************************)
\* VarArgs<T>{sc, p, caller, arg_n}: p is kept as the number of cells of the
\* argument list the cursor has left behind
VarArgs(p, arg_n) == [p |-> p, arg_n |-> arg_n]

\* one access of an element: the position of the element in the argument
\* list, the index given to operator[] (0 for car), the value found, its
\* conversion and the error raised
Access(at, i, value, conv, err) ==
    [at |-> at, i |-> i, value |-> value, conv |-> conv, error |-> err]

NoAccess == Access(0, 0, nullptr, Fault, NoErr)

\* the check and the conversion car() and operator[] share: r is the
\* element i cells after the cursor
CheckedElement(E, sc, caller, va, i, r) ==
    IF S7_DEBUGGING /\ ~is(E, sc, r)
    THEN {Access(va.p + 1 + i, i, r, Fault,
                 s7_wrong_type_arg_error(caller, va.arg_n, r,
                                         type_to_string(E, sc)))}
    ELSE {Access(va.p + 1 + i, i, r, c,
                 IF c.ok THEN NoErr ELSE [type |-> "fault"]) :
            c \in to(E, sc, r)}

\* VarArgs<T>::car(), which the iterator's operator* calls on its copy
car(E, sc, caller, va, args) ==
    CheckedElement(E, sc, caller, va, 0, args[va.p + 1])

\* VarArgs<T>::operator[](i): s7_list_ref(sc, p, i)
list_ref(E, sc, caller, va, args, i) ==
    CheckedElement(E, sc, caller, va, i, args[va.p + 1 + i])

\* VarArgs<T>::cdr(), which the iterator's operator++ assigns to its copy
cdr(va) == VarArgs(va.p + 1, va.arg_n + 1)

\* the cursor after tmp = car(); p = s7_cdr(p) of VarArgs<T>::advance()
advance(va) == VarArgs(va.p + 1, va.arg_n)

\* a function pointer of fixed arity and a lambda taking a cursor
SingleCallables ==
    { [id |-> "fnA", L |-> "fp_bool_short"],
      [id |-> "sum", L |-> "lam_varargs"] }

SingleTypes == {c.L : c \in SingleCallables}

\* no call is in progress
Idle == last.op \notin {"call", "predicate", "body"}

\* Scheme::define_function(name, doc, func): the template for any callable
define_function(sc, name, c) ==
    /\ regs < MaxRegs
    /\ funcs[sc][name] = NoFn
    /\ make_s7_function(sc, name, c)
    /\ funcs' = [funcs EXCEPT ![sc][name] =
                    IF function_has_varargs(c.L)
                    THEN [kind |-> "function", L |-> c.L, fn |-> c.id,
                          entry |-> "define_function",
                          required |-> 0, optional |-> 0, rest |-> TRUE]
                    ELSE [kind |-> "function", L |-> c.L, fn |-> c.id,
                          entry |-> "define_function",
                          required |-> Arity(c.L), optional |-> 0,
                          rest |-> FALSE]]
    /\ regs' = regs + 1
    /\ last' = NoOp
    /\ UNCHANGED <<debugging, typeTag, typeLet, cTypes, lets, heap,
                   registered, opVars, gcVars>>

\* Scheme::make_function(name, doc, func): the template for any callable;
\* the Function it returns is kept under its name for the host's calls
make_function(sc, name, c) ==
    LET NumArgs == Arity(c.L) IN
    /\ regs < MaxRegs
    /\ funcs[sc][name] = NoFn
    /\ make_s7_function(sc, name, c)
    /\ funcs' = [funcs EXCEPT ![sc][name] =
                    [kind |-> "function", L |-> c.L, fn |-> c.id,
                     entry |-> "make_function",
                     required |-> NumArgs, optional |-> 0, rest |-> FALSE]]
    /\ regs' = regs + 1
    /\ last' = NoOp
    /\ UNCHANGED <<debugging, typeTag, typeLet, cTypes, lets, heap,
                   registered, opVars, gcVars>>

\* the call of the body of a variadic callable, in progress or ended
CursorCall(op, sc, name, f, args, va, access, out) ==
    [op |-> op, inst |-> sc, callee |-> name, bound |-> f, arglist |-> args,
     va |-> va, access |-> access, out |-> out]

\* the interpreter applies the function to args: the whole call of a
\* fixed-arity callable; for a variadic callable detail::call_fn_varargs
\* enters the body with fn(VarArgs<T>(sc, args, name))
CallSingle(sc, name, args) ==
    LET f == funcs[sc][name] IN
    /\ f.kind = "function"
    /\ IF ~ArgCountOk(f, Len(args))
       THEN last' = [op |-> "call", inst |-> sc, callee |-> name,
                     bound |-> f, arglist |-> args,
                     out |-> Outcome(<<>>, nullptr,
                                     [type |-> "wrong-number-of-args"])]
       ELSE IF function_has_varargs(f.L)
       THEN last' = CursorCall("body", sc, name, f, args, VarArgs(0, 1),
                        NoAccess,
                        Outcome(<<[fn |-> lambda[f.L], actuals |-> args,
                                   returned |-> 0]>>, nullptr, NoErr))
       ELSE \E out \in call_fn(f.L, sc, args) :
               last' = [op |-> "call", inst |-> sc, callee |-> name,
                        bound |-> f, arglist |-> args, out |-> out]
    /\ UNCHANGED <<debugging, typeTag, typeLet, cTypes, lets, heap, lambda,
                   lname, funcs, regs, registered, opVars, gcVars>>

\* the body has the cursor va after an access a: the call ends when the
\* access raised
AfterAccess(va, a) ==
    /\ last' = [last EXCEPT !.op = IF a.error = NoErr THEN "body" ELSE "call",
                            !.va = va, !.access = a,
                            !.out.error = a.error]
    /\ UNCHANGED <<debugging, typeTag, typeLet, cTypes, lets, heap, lambda,
                   lname, funcs, regs, registered, opVars, gcVars>>

InBody == last.op = "body"
BodyType == VarArgsType(Params(last.bound.L)[Arity(last.bound.L)])
BodyCaller == lname[last.bound.L][last.inst]
Remaining == Len(last.arglist) - last.va.p

\* the argument values of the calls of single callables
SingleArgValues == {s7_make_boolean(TRUE), s7_make_integer(1)}

InitSingle ==
    /\ InitRegistered
    /\ lambda = [L \in SingleTypes |-> None]
    /\ lname = [L \in SingleTypes |-> [sc \in Instances |-> None]]
    /\ funcs = [sc \in Instances |-> [n \in Names |-> NoFn]]

DefineSingle ==
    /\ Idle
    /\ \E sc \in Instances, name \in Names, c \in SingleCallables :
            define_function(sc, name, c)

MakeSingle ==
    /\ Idle
    /\ \E sc \in Instances, name \in Names, c \in SingleCallables :
            make_function(sc, name, c)

ApplySingle ==
    /\ Idle
    /\ \E sc \in Instances, name \in Names :
            \E args \in SeqsUpTo(SingleArgValues, MaxArgs) :
                CallSingle(sc, name, args)

\* the body reads the element under its cursor (or under its iterator)
Car ==
    /\ InBody /\ Remaining > 0
    /\ \E a \in car(BodyType, last.inst, BodyCaller, last.va, last.arglist) :
            AfterAccess(last.va, a)

\* the body reads the element i cells after its cursor
IndexAt ==
    /\ InBody
    /\ \E i \in 0 .. (Remaining - 1) :
         \E a \in list_ref(BodyType, last.inst, BodyCaller, last.va,
                           last.arglist, i) :
            AfterAccess(last.va, a)

\* the body replaces its cursor by cdr() (or increments its iterator)
Cdr ==
    /\ InBody /\ Remaining > 0
    /\ AfterAccess(cdr(last.va), NoAccess)

\* the body calls advance()
Advance ==
    /\ InBody /\ Remaining > 0
    /\ \E a \in car(BodyType, last.inst, BodyCaller, last.va, last.arglist) :
            AfterAccess(IF a.error = NoErr THEN advance(last.va) ELSE last.va,
                        a)

\* the body returns, and call_fn_varargs converts what it returned
BodyReturns ==
    /\ InBody
    /\ \E r \in ReturnValues(ReturnType(last.bound.L)) :
          last' = [last EXCEPT !.op = "call",
                               !.out.invoked[1].returned = r,
                               !.out.result =
                                   from(ReturnType(last.bound.L), last.inst, r)]
    /\ UNCHANGED <<debugging, typeTag, typeLet, cTypes, lets, heap, lambda,
                   lname, funcs, regs, registered, opVars, gcVars>>

NextSingle ==
    \/ DefineSingle \/ MakeSingle \/ ApplySingle
    \/ Car \/ IndexAt \/ Cdr \/ Advance \/ BodyReturns \/ Return

SpecSingle == InitSingle /\ [][NextSingle]_vars

(***************************************************************************)
(* Properties of the cursor, of the build flag and of the entry points.    *)
(***************************************************************************)
\* an access of the cursor raised a wrong-type error
CursorRaised ==
    /\ last.op = "call"
    /\ function_has_varargs(last.bound.L)
    /\ last.out.error.type = "wrong-type-arg"

\* C23: a type mismatch found by the variadic cursor is reported at the
\* position of the element accessed: when the k-th argument of the call
\* fails is<E>, the WrongType error names position k and that argument,
\* whether it was reached by iteration, advance(), cdr()/car() or cursor[i];
\* each access checks and converts the one element accessed.
C23_MismatchReportedAtAccessedPosition ==
    CursorRaised =>
        /\ ~is(BodyType, last.inst, last.arglist[last.access.at])
        /\ last.out.error.arg = last.arglist[last.access.at]
        /\ last.out.error.pos = last.access.at

\* the error names the element accessed; its position is the number of
\* cdr() steps behind the cursor plus one, which leaves out the index given
\* to operator[] and the steps made by advance()
ErrorNamesAccessedElement ==
    CursorRaised =>
        /\ ~is(BodyType, last.inst, last.arglist[last.access.at])
        /\ last.out.error.arg = last.arglist[last.access.at]
        /\ last.out.error.pos = last.va.arg_n
        /\ last.access.at = last.va.p + 1 + last.access.i

\* a body that moves its cursor with cdr() or an iterator alone, and reads
\* with car(), gets the position of the element accessed
CdrAndIterationReportPosition ==
    (CursorRaised /\ last.va.arg_n = last.va.p + 1 /\ last.access.i = 0) =>
        last.out.error.pos = last.access.at

\* the last step was the call of a fixed-arity callable that passed the
\* runtime's count check
FixedCalled ==
    /\ last.op = "call"
    /\ ~function_has_varargs(last.bound.L)
    /\ last.out.error.type # "wrong-number-of-args"

\* the cursor of the call in progress, or of the call that ended, has made
\* an access
CursorAccessed ==
    /\ last.op \in {"body", "call"}
    /\ function_has_varargs(last.bound.L)
    /\ last.out.error.type # "wrong-number-of-args"
    /\ last.access # NoAccess

\* C24: argument validation depends on the build flag only: in a validation
\* build the fixed-arity adapter and the variadic cursor check every
\* argument (the cursor: every element it accesses) against its declared
\* type before they convert it; in a performance build they make no check,
\* never raise WrongType, and the native callable gets the unchecked
\* conversion of whatever was passed.
C24_ValidationDependsOnBuildOnly ==
    /\ (FixedCalled /\ debugging) =>
          IF \E i \in 1 .. Arity(CalledL) : ~Matches(i)
          THEN /\ last.out.error.type = "wrong-type-arg"
               /\ last.out.invoked = <<>>
          ELSE /\ last.out.error = NoErr
               /\ Len(last.out.invoked) = 1
    /\ (FixedCalled /\ ~debugging) =>
          /\ last.out.error.type # "wrong-type-arg"
          /\ Len(last.out.invoked) = 1
          /\ \A i \in 1 .. Arity(CalledL) :
                Ok(last.out.invoked[1].actuals[i])
                    \in to(Params(CalledL)[i], last.inst, last.arglist[i])
    /\ (CursorAccessed /\ debugging) =>
          IF is(BodyType, last.inst, last.access.value)
          THEN /\ last.out.error = NoErr
               /\ last.access.conv \in to(BodyType, last.inst, last.access.value)
          ELSE /\ last.out.error.type = "wrong-type-arg"
               /\ last.access.conv = Fault
    /\ (CursorAccessed /\ ~debugging) =>
          /\ last.out.error.type # "wrong-type-arg"
          /\ last.access.conv \in to(BodyType, last.inst, last.access.value)
          /\ Len(last.out.invoked) = 1

\* a performance build invoked the fixed-arity callable with two arguments
\* that both fail their declared types
C24_Witness ==
    /\ FixedCalled /\ ~debugging
    /\ ~Matches(1) /\ ~Matches(2)
    /\ Len(last.out.invoked) = 1
    /\ last.out.error = NoErr

\* a performance build converted an element that fails the cursor's element
\* type, and the body returned
UncheckedCursorAccess ==
    /\ CursorAccessed /\ ~debugging
    /\ last.op = "call"
    /\ ~is(BodyType, last.inst, last.access.value)
    /\ last.out.error = NoErr

\* a validation build refused an element the cursor accessed
CheckedCursorAccess == CursorRaised /\ debugging

\* the functions registered from a single callable
SingleFunctions ==
    { f \in {funcs[sc][n] : sc \in Instances, n \in Names} :
        f.kind = "function" }

\* C30: make_function and define_function register the same arity bounds
\* for the same callable: a fixed-arity callable of n parameters gets n
\* required arguments and no rest list, a variadic callable gets zero
\* required arguments and a rest list, through either entry point.
C30_SameBoundsThroughEitherEntryPoint ==
    \A f \in SingleFunctions :
        IF function_has_varargs(f.L)
        THEN f.required = 0 /\ f.optional = 0 /\ f.rest
        ELSE f.required = Arity(f.L) /\ f.optional = 0 /\ ~f.rest

\* define_function registers the bounds C30 states
DefineFunctionBounds ==
    \A f \in SingleFunctions :
        f.entry = "define_function" =>
            IF function_has_varargs(f.L)
            THEN f.required = 0 /\ f.optional = 0 /\ f.rest
            ELSE f.required = Arity(f.L) /\ f.optional = 0 /\ ~f.rest

\* make_function registers the number of declared parameters and no rest
\* list, whatever the callable: exactly one argument for a variadic one
MakeFunctionBounds ==
    \A f \in SingleFunctions :
        f.entry = "make_function" =>
            f.required = Arity(f.L) /\ f.optional = 0 /\ ~f.rest

\* a variadic callable made by make_function was refused a call with no
\* argument
MadeVariadicRefusesEmptyCall ==
    /\ last.op = "call"
    /\ last.bound.entry = "make_function"
    /\ function_has_varargs(last.bound.L)
    /\ last.arglist = <<>>
    /\ last.out.error.type = "wrong-number-of-args"

(***************************************************************************)
(* The lifetimes of the Scheme objects: move construction, move            *)
(* assignment and destruction.                                             *)
(***************************************************************************)
\* the moves, assignments and destructions of one run
MaxLifeSteps == 4

lifeFrame == <<debugging, typeTag, typeLet, cTypes, lets, heap, lambda,
               lname, funcs, registered, last, methods, binding,
               substitured_ops, cTypeHooks>>

\* Scheme & operator=(Scheme &&other): sc = other.sc; other.sc = nullptr;
\* in this order, also when other is *this
MoveAssigned(src, dst) ==
    [owner EXCEPT ![dst] = owner[src], ![src] = NoInstance]

\* Scheme(Scheme &&other) { operator=(std::move(other)); } in the storage dst
MoveConstruct(src, dst) ==
    /\ regs < MaxLifeSteps
    /\ src \in alive /\ dst \notin alive
    /\ owner' = MoveAssigned(src, dst)
    /\ alive' = alive \cup {dst}
    /\ regs' = regs + 1
    /\ UNCHANGED <<lifeFrame, freed>>

\* dst = std::move(src) for two objects in their lifetime, src = dst included
MoveAssign(src, dst) ==
    /\ regs < MaxLifeSteps
    /\ src \in alive /\ dst \in alive
    /\ owner' = MoveAssigned(src, dst)
    /\ regs' = regs + 1
    /\ UNCHANGED <<lifeFrame, freed, alive>>

\* ~Scheme() { s7_quit(sc); s7_free(sc); }
Destroy(s) ==
    /\ regs < MaxLifeSteps
    /\ s \in alive
    /\ freed' = [freed EXCEPT ![owner[s]] = @ + 1]
    /\ alive' = alive \ {s}
    /\ regs' = regs + 1
    /\ UNCHANGED <<lifeFrame, owner>>

\* A and B were constructed by Scheme() with an interpreter each; the
\* storage C holds no object yet
InitLife ==
    /\ debugging \in BOOLEAN
    /\ typeTag = [T \in UserTypes |-> NoEntry]
    /\ typeLet = [T \in UserTypes |-> NoEntry]
    /\ cTypes = [sc \in Instances |-> 0]
    /\ lets = [sc \in Instances |-> 0]
    /\ heap = <<>>
    /\ regs = 0
    /\ registered = [T \in UserTypes |-> [sc \in Instances |-> 0]]
    /\ last = NoOp
    /\ InitOps
    /\ cTypeHooks = [sc \in Instances |-> <<>>]
    /\ freed = [sc \in Instances \cup {NoInstance} |-> 0]
    /\ alive = {s \in Schemes : owner[s] # NoInstance}
    /\ lambda = [L \in AdapterTypes |-> None]
    /\ lname = [L \in AdapterTypes |-> [sc \in Instances |-> None]]
    /\ funcs = [sc \in Instances |-> [n \in Names |-> NoFn]]

MoveConstructs == \E src \in Schemes, dst \in Schemes : MoveConstruct(src, dst)
MoveAssigns == \E src \in Schemes, dst \in Schemes : MoveAssign(src, dst)
Destroys == \E s \in Schemes : Destroy(s)

NextLife == MoveConstructs \/ MoveAssigns \/ Destroys

SpecLife == InitLife /\ [][NextLife]_vars

\* C29: across any sequence of move construction, move assignment (onto an
\* object that owns an interpreter or onto a moved-from one, self-assignment
\* included) and destruction, every interpreter a Scheme constructor created
\* is shut down and freed exactly once (once every object is destroyed), and
\* shutdown/free is never invoked on a null handle
C29_FreedExactlyOnceNeverNull ==
    /\ freed[NoInstance] = 0
    /\ \A sc \in Instances : freed[sc] <= 1
    /\ alive = {} => \A sc \in Instances : freed[sc] = 1

\* no interpreter is freed twice, and no two objects hold the same one
NeverFreedTwice ==
    /\ \A sc \in Instances : freed[sc] <= 1
    /\ \A s \in alive, t \in alive :
          (s # t /\ owner[s] # NoInstance) => owner[s] # owner[t]
    /\ \A s \in alive : owner[s] # NoInstance => freed[owner[s]] = 0

\* the destructor ran on a moved-from object: s7_quit and s7_free got the
\* null pointer
FreedNullHandle == freed[NoInstance] > 0

\* every object is destroyed and an interpreter was never freed
LeakedInterpreter ==
    /\ alive = {}
    /\ \E sc \in Instances : freed[sc] = 0

====
